---------------------------- MODULE Spec2Model ----------------------------
(***************************************************************************)
(* Codimension: the text cursor context (scope) resolver of                *)
(* src/autocomplete/bufferutils.py and the CML comment validation of       *)
(* src/flowui/cml.py, as state machines.                                   *)
(*                                                                         *)
(* The editor buffer is a sequence of physical lines.  A line is a record  *)
(*   kind : "class" | "def" | "deco" | "stmt" | "cont" | "comment" |       *)
(*          "blank"  ("cont": a physical line that continues the logical   *)
(*          line begun above it)                                           *)
(*   ind  : the 0-based column of its first non-space character            *)
(*   end  : how the line ends: "none", "comma" (a trailing ','),           *)
(*          "bslash" (a trailing '\') or "tq" (its last character is      *)
(*          styled as part of a triple-quoted string literal)              *)
(* A header line reads  "class A:"  or  "def f():"  (8 characters, the     *)
(* colon is the 8th), a decorator line reads "@d", a statement "pass".     *)
(* Every line may carry trailing spaces, so the cursor can stand at any    *)
(* column 0..MaxPos of any line.                                           *)
(***************************************************************************)
EXTENDS Integers, Sequences, FiniteSets, TLC

VARIABLES
    text,         \* editor buffer: sequence of lines (line i of the model is editor line i-1)
    indentWidth,  \* columns of indentation per nesting level used by the buffer's author
    info,         \* the brief module info (outline) of the buffer
    lexer,        \* the editor's lexer: "python", "other" or "none"
    cursorLine,   \* editor cursor line, 0-based
    cursorPos,    \* editor cursor column, 0-based
    skipDef,      \* getContext argument
    skipBlank,    \* getContext argument skipBlankLinesBack
    context,      \* the TextCursorContext returned by the last getContext
    op,           \* the last operation
    comments,     \* a CML comment list (raw comments and typed annotations)
    warnings,     \* the warnings returned by the last validateCMLList
    raw,          \* the list as it was before the last validateCMLList
    raised,       \* whether the last validateCMLList raised an exception
    colorText,    \* a color spec being typed, a python string
    qcolor,       \* the outcome of the last readColor
    genInput,     \* the arguments of the last generate: [CODE, ...]
    genLine,      \* the outcome of the last generate: a comment line
    genResult,    \* the generated line, parsed and validated
    items,        \* the graphics items of the control flow scene, as scene.items() lists them
    selected,     \* the selected items of the scene (indexes into items)
    mouseCall,    \* the last call of the scene's mouse mixin and its arguments
    mouseResult,  \* what that call returned
    cells,        \* the scope cells of a canvas of the diagram, row by row
    vcanvas,      \* that canvas: its settings and measures
    layout,       \* how far the layout of the canvas has come
    kept,         \* a context a caller of getContext still holds, with the call it came from
    tabs,         \* the widgets of the tabs of the editors manager, in tab order
    tabsClosable, \* the tabsClosable property of the editors manager
    history,      \* the navigation history of the tabs
    currentIndex, \* the index of the current tab of the editors manager
    zoom,         \* Settings().zoom, the zoom shared by the text widgets
    viewers,      \* the zoom of the viewer of each IO console tab
    emitted       \* what the last zoom request emitted as textEditorZoom

vars == << text, indentWidth, info, lexer, cursorLine, cursorPos, skipDef,
           skipBlank, context, op, comments, warnings, raw, raised,
           colorText, qcolor, genInput, genLine, genResult,
           items, selected, mouseCall, mouseResult, cells, vcanvas, layout,
           kept, tabs, tabsClosable, history, currentIndex, zoom, viewers,
           emitted >>

ctxVars == << text, indentWidth, info, lexer, cursorLine, cursorPos, skipDef,
              skipBlank, context >>

cmlVars == << comments, warnings, raw, raised >>

colorVars == << colorText, qcolor >>

genVars == << genInput, genLine, genResult >>

mouseVars == << items, selected, mouseCall, mouseResult >>

layoutVars == << cells, vcanvas, layout >>

tabVars == << tabs, tabsClosable, history, currentIndex >>

zoomVars == << zoom, viewers, emitted >>

\* The variables of the other parts of the program.
restVars == << colorVars, genVars, mouseVars, layoutVars, kept,
                 tabVars, zoomVars >>

exceptColor == << ctxVars, cmlVars, genVars, mouseVars, layoutVars, kept,
                 tabVars, zoomVars >>

exceptGen == << ctxVars, cmlVars, colorVars, mouseVars, layoutVars, kept,
                 tabVars, zoomVars >>

exceptMouse == << ctxVars, cmlVars, colorVars, genVars, layoutVars, kept,
                 tabVars, zoomVars >>

exceptLayout == << ctxVars, cmlVars, colorVars, genVars, mouseVars, kept,
                 tabVars, zoomVars >>

-----------------------------------------------------------------------------
(* The parts of the program that a specification leaves alone *)

IdleColor == colorText = << >> /\ qcolor = [kind |-> "None"]

IdleGen ==
    /\ genInput = [kind |-> "None"]
    /\ genLine = [kind |-> "None"]
    /\ genResult = [kind |-> "None"]

IdleMouse ==
    /\ items = << >>
    /\ selected = {}
    /\ mouseCall = [kind |-> "None"]
    /\ mouseResult = [kind |-> "None"]

IdleLayout ==
    /\ cells = << >>
    /\ vcanvas = [kind |-> "None"]
    /\ layout = [kind |-> "None"]

IdleCalls == kept = [kind |-> "None"]

IdleTabs ==
    /\ tabs = << >>
    /\ tabsClosable = FALSE
    /\ history = << >>
    /\ currentIndex = -1

IdleZoom ==
    /\ zoom = 0
    /\ viewers = << >>
    /\ emitted = [kind |-> "None"]

IdleRest ==
    /\ IdleColor
    /\ IdleGen
    /\ IdleMouse
    /\ IdleLayout
    /\ IdleCalls
    /\ IdleTabs
    /\ IdleZoom

-----------------------------------------------------------------------------
(* Bounds of the model *)

MaxLines == 4

MaxPos == 13

IndentWidths == {2, 4, 8}

Min(a, b) == IF a < b THEN a ELSE b

-----------------------------------------------------------------------------
(* TextCursorContext *)

GlobalScope == 1

FunctionScope == 2

ClassScope == 3

ClassMethodScope == 4

None == [kind |-> "None"]

NewContext == [levels |-> << >>, length |-> 0]

addFunction(ctx, infoObj) ==
    IF ctx.length = 0
    THEN [levels |-> Append(ctx.levels, << infoObj, FunctionScope >>),
          length |-> ctx.length + 1]
    ELSE IF ctx.levels[ctx.length][2] = ClassScope
         THEN [levels |-> Append(ctx.levels, << infoObj, ClassMethodScope >>),
               length |-> ctx.length + 1]
         ELSE [levels |-> Append(ctx.levels, << infoObj, FunctionScope >>),
               length |-> ctx.length + 1]

addClass(ctx, infoObj) ==
    [levels |-> Append(ctx.levels, << infoObj, ClassScope >>),
     length |-> ctx.length + 1]

getScope(ctx) ==
    IF ctx.length = 0 THEN GlobalScope ELSE ctx.levels[ctx.length][2]

getInfoObj(ctx) ==
    IF ctx.length = 0 THEN None ELSE ctx.levels[ctx.length][1]

\* Only called on a context with length > 0 (the code raises otherwise).
getLastScopeLine(ctx) == ctx.levels[ctx.length][1].colonLine

\* A stripLevels that keeps the innermost frames instead of the outermost.
StripLevelsKeepingInnermost(ctx, nonSpacePos) ==
    LET maxLevels == nonSpacePos \div 4
    IN  IF maxLevels < ctx.length
        THEN [levels |-> SubSeq(ctx.levels, ctx.length - maxLevels + 1,
                                ctx.length),
              length |-> maxLevels]
        ELSE ctx

stripLevels(ctx, nonSpacePos) ==
    LET maxLevels == nonSpacePos \div 4
    IN  IF maxLevels < ctx.length
        THEN [levels |-> SubSeq(ctx.levels, 1, maxLevels), length |-> maxLevels]
        ELSE ctx

-----------------------------------------------------------------------------
(* The editor buffer and the brief parser's outline of it *)

IsHeader(ln) == ln.kind \in {"class", "def"}

IsCode(ln) == ln.kind \in {"class", "def", "deco", "stmt"}

\* text.strip() == ""
IsBlank(ln) == ln.kind = "blank"

\* len( text.rstrip() )
RStripLen(ln) ==
    CASE ln.kind = "blank" -> 0
      [] IsHeader(ln)      -> ln.ind + 8
      [] ln.kind = "deco"  -> ln.ind + 2
      [] OTHER             -> ln.ind + 4

\* The header that encloses line h: the nearest header above it that is
\* indented less (0 when h is at the top level).
ParentOf(t, h) ==
    LET above == { p \in 1..(h - 1) : IsHeader(t[p]) /\ t[p].ind < t[h].ind }
    IN  IF above = {} THEN 0 ELSE CHOOSE p \in above : \A q \in above : q <= p

Indices(t) == [i \in 1..Len(t) |-> i]

RECURSIVE DefinitionOf(_, _)
\* The outline node of the definition whose header is line h (1-based, as
\* the parser reports lines and columns).
DefinitionOf(t, h) ==
    LET nested(k) == SelectSeq(Indices(t),
                        LAMBDA c : t[c].kind = k /\ ParentOf(t, c) = h)
        cls == nested("class")
        fns == nested("def")
    IN  [kind        |-> t[h].kind,
         name        |-> h,
         line        |-> h,
         keywordLine |-> h,
         keywordPos  |-> t[h].ind + 1,
         colonLine   |-> h,
         colonPos    |-> t[h].ind + 8,
         decorators  |-> IF h > 1 /\ t[h - 1].kind = "deco"
                         THEN << [line |-> h - 1, pos |-> t[h - 1].ind + 1] >>
                         ELSE << >>,
         classes     |-> [i \in 1..Len(cls) |-> DefinitionOf(t, cls[i])],
         functions   |-> [i \in 1..Len(fns) |-> DefinitionOf(t, fns[i])]]

\* getBriefModuleInfoFromMemory( editor.text() )
BriefModuleInfo(t) ==
    LET top(k) == SelectSeq(Indices(t),
                     LAMBDA c : t[c].kind = k /\ ParentOf(t, c) = 0)
        cls == top("class")
        fns == top("def")
    IN  [kind      |-> "module",
         classes   |-> [i \in 1..Len(cls) |-> DefinitionOf(t, cls[i])],
         functions |-> [i \in 1..Len(fns) |-> DefinitionOf(t, fns[i])]]

-----------------------------------------------------------------------------
(* _isOnDefinitionLine, _getDefinitionObject, _IdentifyScope *)

RECURSIVE LowLimit(_, _, _)
\* The loop over infoObj.decorators: the smallest of lowLimit and the
\* decorators' (line << 16) + pos.
LowLimit(decorators, i, lowLimit) ==
    IF i > Len(decorators) THEN lowLimit
    ELSE LET candidate == decorators[i].line * 65536 + decorators[i].pos
         IN  LowLimit(decorators, i + 1,
                      IF candidate < lowLimit THEN candidate ELSE lowLimit)

isOnDefinitionLine(infoObj, line, pos) ==
    LET lowLimit == LowLimit(infoObj.decorators, 1, infoObj.keywordLine * 65536)
        upLimit  == infoObj.colonLine * 65536 + infoObj.colonPos
        current  == line * 65536 + pos
    IN  current >= lowLimit /\ current <= upLimit

RECURSIVE getDefinitionObject(_, _, _)
RECURSIVE DefinitionIn(_, _, _, _)
\* One of the two loops of _getDefinitionObject, over objs from index i.
DefinitionIn(objs, i, line, pos) ==
    IF i > Len(objs) THEN None
    ELSE IF isOnDefinitionLine(objs[i], line, pos) THEN objs[i]
    ELSE LET obj == getDefinitionObject(objs[i], line, pos)
         IN  IF obj # None THEN obj ELSE DefinitionIn(objs, i + 1, line, pos)

getDefinitionObject(infoObj, line, pos) ==
    LET cls == DefinitionIn(infoObj.classes, 1, line, pos)
    IN  IF cls # None THEN cls
        ELSE DefinitionIn(infoObj.functions, 1, line, pos)

RECURSIVE ClassLoop(_, _, _, _, _, _, _, _)
\* The loop over infoObject.classes from index i.  returned: the function
\* returned from inside the loop.
ClassLoop(classes, i, ctx, cursorLn, cursorPs, skip, nearestLine, nearestInfo) ==
    IF i > Len(classes)
    THEN [returned |-> FALSE, context |-> ctx,
          nearestLine |-> nearestLine, nearestInfo |-> nearestInfo]
    ELSE LET klass == classes[i]
             onDef == isOnDefinitionLine(klass, cursorLn, cursorPs)
         IN  IF onDef
             THEN [returned |-> TRUE,
                   context |-> IF skip THEN ctx ELSE addClass(ctx, klass),
                   nearestLine |-> nearestLine, nearestInfo |-> nearestInfo]
             ELSE IF klass.line > nearestLine /\ klass.line < cursorLn
                  THEN ClassLoop(classes, i + 1, ctx, cursorLn, cursorPs, skip,
                                 klass.line, klass)
                  ELSE ClassLoop(classes, i + 1, ctx, cursorLn, cursorPs, skip,
                                 nearestLine, nearestInfo)

RECURSIVE FuncLoop(_, _, _, _, _, _, _, _, _)
\* The loop over infoObject.functions from index i.
FuncLoop(functions, i, ctx, cursorLn, cursorPs, skip, nearestClassLine, nearestLine, nearestInfo) ==
    IF i > Len(functions)
    THEN [returned |-> FALSE, context |-> ctx,
          nearestLine |-> nearestLine, nearestInfo |-> nearestInfo]
    ELSE LET func == functions[i]
             onDef == isOnDefinitionLine(func, cursorLn, cursorPs)
         IN  IF onDef
             THEN [returned |-> TRUE,
                   context |-> IF skip THEN ctx ELSE addFunction(ctx, func),
                   nearestLine |-> nearestLine, nearestInfo |-> nearestInfo]
             ELSE IF /\ func.line > nearestClassLine
                     /\ func.line > nearestLine
                     /\ func.line <= cursorLn
                  THEN FuncLoop(functions, i + 1, ctx, cursorLn, cursorPs, skip,
                                nearestClassLine, func.line, func)
                  ELSE FuncLoop(functions, i + 1, ctx, cursorLn, cursorPs, skip,
                                nearestClassLine, nearestLine, nearestInfo)

RECURSIVE IdentifyScope(_, _, _, _, _)
\* _IdentifyScope: the context after the call.
IdentifyScope(infoObject, ctx, cursorLn, cursorPs, skip) ==
    LET c == ClassLoop(infoObject.classes, 1, ctx, cursorLn, cursorPs, skip,
                       -1, None)
    IN  IF c.returned THEN c.context
        ELSE
        LET f == FuncLoop(infoObject.functions, 1, ctx, cursorLn, cursorPs, skip,
                          c.nearestLine, -1, None)
        IN  IF f.returned THEN f.context
            ELSE IF c.nearestLine = -1 /\ f.nearestLine = -1 THEN ctx
            ELSE IF c.nearestLine > f.nearestLine
                 THEN IdentifyScope(c.nearestInfo, addClass(ctx, c.nearestInfo),
                                    cursorLn, cursorPs, skip)
                 ELSE IdentifyScope(f.nearestInfo, addFunction(ctx, f.nearestInfo),
                                    cursorLn, cursorPs, skip)

-----------------------------------------------------------------------------
(* getContext *)

\* A _getFirstNonSpacePos that reports column 0 for a line of spaces.
FirstNonSpacePosNeverMissing(ln) == ln.ind

\* _getFirstNonSpacePos( text )
getFirstNonSpacePos(ln) == IF IsBlank(ln) THEN -1 ELSE ln.ind

\* _endsWithTripleQuotedString( editor, line, len( text ) - 1 )
endsWithTripleQuotedString(ln) == ln.end = "tq"

RECURSIVE SkipBlankLinesBack(_, _)
\* The loop "while line >= 0" of skipBlankLinesBack == True: the (line, pos)
\* used as the cursor position.
SkipBlankLinesBack(t, line) ==
    IF line < 0 THEN [line |-> 0, pos |-> 0]
    ELSE IF ~IsBlank(t[line + 1])
         THEN [line |-> line, pos |-> RStripLen(t[line + 1])]
         ELSE SkipBlankLinesBack(t, line - 1)

RECURSIVE ScanEveryLine(_, _, _, _, _, _)
\* A loop that strips at every line that is neither blank nor a comment,
\* continuation lines included.
ScanEveryLine(t, currentLine, line, ctx, continueLine, nonSpacePos) ==
    IF currentLine >= Len(t) \/ currentLine = line
    THEN [returned |-> FALSE, context |-> ctx,
          continueLine |-> continueLine, nonSpacePos |-> nonSpacePos]
    ELSE LET ln       == t[currentLine + 1]
             skipped  == IsBlank(ln) \/ ln.kind = "comment"
             nsp      == getFirstNonSpacePos(ln)
             stripped == stripLevels(ctx, nsp)
             cont     == ln.end # "none"
         IN  IF skipped
             THEN ScanEveryLine(t, currentLine + 1, line, ctx, continueLine,
                                nonSpacePos)
             ELSE IF stripped.length = 0
                  THEN [returned |-> TRUE, context |-> stripped,
                        continueLine |-> continueLine, nonSpacePos |-> nsp]
                  ELSE ScanEveryLine(t, currentLine + 1, line, stripped, cont,
                                     nsp)

RECURSIVE ScanLines(_, _, _, _, _, _)
\* The loop "for currentLine in xrange( getLastScopeLine(), editor.lines() )"
\* from currentLine on.  returned: the function returned from inside the loop.
ScanLines(t, currentLine, line, ctx, continueLine, nonSpacePos) ==
    IF currentLine >= Len(t) \/ currentLine = line
    THEN [returned |-> FALSE, context |-> ctx,
          continueLine |-> continueLine, nonSpacePos |-> nonSpacePos]
    ELSE LET ln       == t[currentLine + 1]
             skipped  == ~continueLine /\ (IsBlank(ln) \/ ln.kind = "comment")
             nsp      == IF continueLine THEN nonSpacePos
                         ELSE getFirstNonSpacePos(ln)
             stripped == IF continueLine THEN ctx ELSE stripLevels(ctx, nsp)
             cont     == \/ ln.end = "comma"
                         \/ ln.end = "bslash"
                         \/ endsWithTripleQuotedString(ln)
         IN  IF skipped
             THEN ScanLines(t, currentLine + 1, line, ctx, continueLine,
                            nonSpacePos)
             ELSE IF stripped.length = 0
                  THEN [returned |-> TRUE, context |-> stripped,
                        continueLine |-> continueLine, nonSpacePos |-> nsp]
                  ELSE ScanLines(t, currentLine + 1, line, stripped, cont, nsp)

\* A lexer test that only checks for a missing lexer.
AnyLexerIsPython(lex) == lex # "none"

\* not ( lexer is None or not isinstance( lexer, QsciLexerPython ) )
IsPythonLexer(lex) == lex # "none" /\ lex = "python"

\* getContext( editor, info, skipBlankLinesBack, skipDef ) on an editor with
\* the buffer t, the lexer lex and the cursor at (curLine, curPos).
getContext(t, lex, inf, curLine, curPos, skipBlankLinesBack, skip) ==
    IF ~IsPythonLexer(lex) THEN NewContext
    ELSE
    LET cur   == IF skipBlankLinesBack THEN SkipBlankLinesBack(t, curLine)
                 ELSE [line |-> curLine, pos |-> curPos]
        line  == cur.line
        pos   == cur.pos
        ctx   == IdentifyScope(inf, NewContext, line + 1, pos, skip)
        scan  == ScanLines(t, getLastScopeLine(ctx), line, ctx, FALSE, -1)
        nsp   == getFirstNonSpacePos(t[line + 1])
    IN  IF ~skip /\ getDefinitionObject(inf, line + 1, pos) # None THEN ctx
        ELSE IF ctx.length = 0 THEN ctx
        ELSE IF scan.returned THEN scan.context
        ELSE IF scan.continueLine
             THEN stripLevels(scan.context, scan.nonSpacePos)
             ELSE IF nsp = -1
                  THEN stripLevels(scan.context, pos)
                  ELSE stripLevels(scan.context, Min(pos, nsp))

-----------------------------------------------------------------------------
(* The editor: typing lines at the end of the buffer *)

Line(k, i) == [kind |-> k, ind |-> i, end |-> "none"]

OpenLine(k, i, e) == [kind |-> k, ind |-> i, end |-> e]

\* The buffer holds no comment line, no decorator and no statement that
\* spans several physical lines yet: the model types at most one of these
\* into a buffer.
Plain(t) ==
    \A n \in 1..Len(t) :
        t[n].kind \in {"class", "def", "stmt", "blank"} /\ t[n].end = "none"

\* The next physical line belongs to the logical line above it.
MustContinue(t) == Len(t) > 0 /\ t[Len(t)].end \in {"bslash", "tq"}

MayContinue(t) == Len(t) > 0 /\ t[Len(t)].end # "none"

RECURSIVE LastCode(_, _)
\* The index of the last code line of t[1..n], 0 when there is none.
LastCode(t, n) ==
    IF n = 0 THEN 0
    ELSE IF IsCode(t[n]) THEN n ELSE LastCode(t, n - 1)

\* The columns at which the next statement or header may begin: one level
\* deeper after a header, else any level up to that of the last code line.
NextIndents(t, w) ==
    LET n == LastCode(t, Len(t))
    IN  IF n = 0 THEN {0}
        ELSE IF IsHeader(t[n]) THEN {t[n].ind + w}
        ELSE { i \in 0..t[n].ind : i % w = 0 }

\* The columns at which a comment or a continuation line may begin.
FreeIndents(t, w) ==
    LET n == LastCode(t, Len(t))
    IN  IF n = 0 THEN {0} ELSE { i \in 0..(t[n].ind + w) : i % w = 0 }

Typed(t) ==
    /\ op # "getContext"
    /\ Len(t) <= MaxLines
    /\ text' = t
    /\ info' = BriefModuleInfo(t)
    /\ cursorLine' = 0
    /\ cursorPos' = 0
    /\ skipDef' = TRUE
    /\ skipBlank' = FALSE
    /\ lexer' = "python"
    /\ context' = NewContext
    /\ op' = "edit"
    /\ UNCHANGED << indentWidth, cmlVars, restVars >>

TypeStatement ==
    /\ ~MustContinue(text)
    /\ \E i \in NextIndents(text, indentWidth) :
          Typed(Append(text, Line("stmt", i)))

\* A statement whose first physical line ends in ',' or '\' or inside a
\* triple-quoted string.
TypeOpenStatement ==
    /\ ~MustContinue(text)
    /\ Plain(text)
    /\ \E i \in NextIndents(text, indentWidth),
          e \in {"comma", "bslash", "tq"} :
          Typed(Append(text, OpenLine("stmt", i, e)))

\* A further physical line of the logical line above.
TypeContinuation ==
    /\ MayContinue(text)
    /\ \E i \in FreeIndents(text, indentWidth),
          e \in {"none", "comma"} :
          Typed(Append(text, OpenLine("cont", i, e)))

TypeComment ==
    /\ ~MustContinue(text)
    /\ Plain(text)
    /\ \E i \in FreeIndents(text, indentWidth) :
          Typed(Append(text, Line("comment", i)))

TypeBlankLine ==
    /\ ~MustContinue(text)
    /\ Typed(Append(text, Line("blank", 0)))

TypeDefinition ==
    /\ ~MustContinue(text)
    /\ \E k \in {"class", "def"}, i \in NextIndents(text, indentWidth) :
          Typed(Append(text, Line(k, i)))

TypeDecoratedDefinition ==
    /\ ~MustContinue(text)
    /\ \E k \in {"class", "def"}, i \in NextIndents(text, indentWidth) :
          Typed(text \o << Line("deco", i), Line(k, i) >>)

\* A TextCursorContext whose levels follow those of the context kept.
OnKeptLevels(ctx) ==
    IF kept = None THEN ctx
    ELSE [levels |-> kept.context.levels \o ctx.levels,
          length |-> kept.context.length + ctx.length]

\* getContext whose contexts share one list of levels.
GetContextOnKeptLevels ==
    /\ op # "getContext"
    /\ Len(text) > 0
    /\ \E lex \in {"python", "other", "none"},
          l \in 0..(Len(text) - 1), p \in 0..MaxPos, sd \in BOOLEAN,
          sb \in BOOLEAN :
          /\ lex # "python" => (p \in {0, MaxPos} /\ sd /\ ~sb)
          /\ sb => p = 0
          /\ lexer' = lex
          /\ cursorLine' = l
          /\ cursorPos' = p
          /\ skipDef' = sd
          /\ skipBlank' = sb
          /\ context' = OnKeptLevels(getContext(text, lex, info, l, p, sb, sd))
    /\ op' = "getContext"
    /\ UNCHANGED << text, indentWidth, info, cmlVars, restVars >>

GetContext ==
    /\ op # "getContext"
    /\ Len(text) > 0
    /\ \E lex \in {"python", "other", "none"},
          l \in 0..(Len(text) - 1), p \in 0..MaxPos, sd \in BOOLEAN,
          sb \in BOOLEAN :
          \* getContext does not read the cursor column when it skips blank
          \* lines back; on a non-python editor two columns are tried
          /\ lex # "python" => (p \in {0, MaxPos} /\ sd /\ ~sb)
          /\ sb => p = 0
          /\ lexer' = lex
          /\ cursorLine' = l
          /\ cursorPos' = p
          /\ skipDef' = sd
          /\ skipBlank' = sb
          /\ context' = getContext(text, lex, info, l, p, sb, sd)
    /\ op' = "getContext"
    /\ UNCHANGED << text, indentWidth, info, cmlVars, restVars >>

\* The caller is done with the returned context and drops it.
DiscardContext ==
    /\ op = "getContext"
    /\ lexer' = "python"
    /\ cursorLine' = 0
    /\ cursorPos' = 0
    /\ skipDef' = TRUE
    /\ skipBlank' = FALSE
    /\ context' = NewContext
    /\ op' = "edit"
    /\ UNCHANGED << text, indentWidth, info, cmlVars, restVars >>

InitCtx ==
    /\ text = << >>
    /\ indentWidth \in IndentWidths
    /\ info = BriefModuleInfo(<< >>)
    /\ lexer = "python"
    /\ cursorLine = 0
    /\ cursorPos = 0
    /\ skipDef = TRUE
    /\ skipBlank = FALSE
    /\ context = NewContext
    /\ op = "init"
    /\ comments = << >>
    /\ warnings = << >>
    /\ raw = << >>
    /\ raised = FALSE
    /\ IdleRest

\* Buffers of statements, blank lines and (decorated) definitions.
NextCtx ==
    \/ TypeStatement
    \/ TypeBlankLine
    \/ TypeDefinition
    \/ TypeDecoratedDefinition
    \/ GetContext
    \/ DiscardContext

SpecCtx == InitCtx /\ [][NextCtx]_vars

\* Buffers that also hold a comment line or a statement that spans several
\* physical lines.
NextScan ==
    \/ TypeStatement
    \/ TypeOpenStatement
    \/ TypeContinuation
    \/ TypeComment
    \/ TypeBlankLine
    \/ TypeDefinition
    \/ GetContext
    \/ DiscardContext

SpecScan == InitCtx /\ [][NextScan]_vars

-----------------------------------------------------------------------------
(* CML comments: src/flowui/cml.py                                         *)
(*                                                                         *)
(* A python string is a sequence of one-character strings.  A call that    *)
(* can raise returns Ok(value) or Raise(message); a message is the         *)
(* sequence of the pieces that the code concatenates.  A raw CML comment   *)
(* is a record                                                             *)
(*   recordType : the directive code, as a TLA+ string                     *)
(*   version    : an integer                                               *)
(*   properties : a function from property names to python strings         *)
(*   parts      : a non-empty sequence of [beginLine, beginPos]            *)
(* and a typed annotation is a record with a CODE and the raw comment it   *)
(* was built from as ref; it has no recordType.                            *)

MaxComments == 2

\* The number of properties supplied by all the comments of a list together.
MaxProperties == 2

Ok(v) == [raised |-> FALSE, value |-> v]

Raise(msg) == [raised |-> TRUE, message |-> msg]

DecDigits == << "0", "1", "2", "3", "4", "5", "6", "7", "8", "9" >>

LowerDigits == DecDigits \o << "a", "b", "c", "d", "e", "f" >>

UpperDigits == DecDigits \o << "A", "B", "C", "D", "E", "F" >>

\* The value of every digit character.
DigitTable ==
    [c \in { LowerDigits[i] : i \in 1..16 } \cup { UpperDigits[i] : i \in 1..16 }
        |-> (CHOOSE i \in 1..16 : LowerDigits[i] = c \/ UpperDigits[i] = c) - 1]

\* The value of the digit c in the given base, -1 when c is not a digit.
DigitValue(c, base) ==
    IF c \in DOMAIN DigitTable /\ DigitTable[c] < base
    THEN DigitTable[c]
    ELSE -1

RECURSIVE DigitsValue(_, _)
DigitsValue(s, base) ==
    IF s = << >> THEN 0
    ELSE DigitsValue(SubSeq(s, 1, Len(s) - 1), base) * base
             + DigitValue(s[Len(s)], base)

IsSpace(c) == c = " "

RECURSIVE lstrip(_)
lstrip(s) == IF s # << >> /\ IsSpace(s[1]) THEN lstrip(Tail(s)) ELSE s

RECURSIVE rstrip(_)
rstrip(s) ==
    IF s # << >> /\ IsSpace(s[Len(s)])
    THEN rstrip(SubSeq(s, 1, Len(s) - 1))
    ELSE s

strip(s) == rstrip(lstrip(s))

\* The digits of an unsigned literal: in base 16 it may begin with 0x.
Digits(body, base) ==
    IF base = 16 /\ Len(body) > 2 /\ body[1] = "0" /\ body[2] \in {"x", "X"}
    THEN SubSeq(body, 3, Len(body))
    ELSE body

\* The value of the digits of the literal s, which need at least one digit.
Magnitude(digits, base, sign, s) ==
    IF digits # << >>
       /\ \A i \in 1..Len(digits) : DigitValue(digits[i], base) >= 0
    THEN Ok(sign * DigitsValue(digits, base))
    ELSE Raise(<< "invalid literal for int() with base ", base, s >>)

\* The builtin int( s, base ): surrounding whitespace, an optional sign and
\* the digits.
IntOfStripped(t, base, s) ==
    IF t # << >> /\ t[1] = "-"
    THEN Magnitude(Digits(Tail(t), base), base, 0 - 1, s)
    ELSE IF t # << >> /\ t[1] = "+"
    THEN Magnitude(Digits(Tail(t), base), base, 1, s)
    ELSE Magnitude(Digits(t, base), base, 1, s)

int(s, base) == IntOfStripped(strip(s), base, s)

RECURSIVE split(_, _)
split(s, sep) ==
    IF \A i \in 1..Len(s) : s[i] # sep THEN << s >>
    ELSE LET k == CHOOSE i \in 1..Len(s) :
                      s[i] = sep /\ \A j \in 1..(i - 1) : s[j] # sep
         IN  << SubSeq(s, 1, k - 1) >> \o split(SubSeq(s, k + 1, Len(s)), sep)

startswith(s, c) == s # << >> /\ s[1] = c

QColor(r, g, b, a) == [r |-> r, g |-> g, b |-> b, a |-> a]

\* QColor( r, g, b ) is opaque.
OpaqueAlpha == 255

checkColorRange(value) ==
    IF value < 0 \/ value > 255
    THEN Raise(<< "Invalid color value" >>)
    ELSE Ok(None)

\* checkColorRange( v ) applied to the value that int( ... ) returned.
Checked(v) ==
    IF v.raised THEN v
    ELSE IF checkColorRange(v.value).raised THEN checkColorRange(v.value)
    ELSE v

\* One colour channel: int( ... ) followed by checkColorRange( ... ).
Channel(s, base) == Checked(int(s, base))

\* The body of the try blocks of readColor: any exception raised on the way
\* to the QColor becomes the format error.
Color(channels, failure) ==
    IF \E i \in 1..Len(channels) : channels[i].raised THEN failure
    ELSE Ok(QColor(channels[1].value, channels[2].value, channels[3].value,
                   IF Len(channels) = 3 THEN OpaqueAlpha
                   ELSE channels[4].value))

HexColor(hex) ==
    IF Len(hex) \notin {6, 8}
    THEN Raise(<< "Invalid hexadecimal color format: #", hex >>)
    ELSE Color([i \in 1..(Len(hex) \div 2) |->
                   Channel(SubSeq(hex, 2 * i - 1, 2 * i), 16)],
               Raise(<< "Invalid hexadecimal color format: #", hex >>))

DecimalColor(parts, color) ==
    IF Len(parts) \notin {3, 4}
    THEN Raise(<< "Invalid decimal color format: ", color >>)
    ELSE Color([i \in 1..Len(parts) |-> Channel(strip(parts[i]), 10)],
               Raise(<< "Invalid decimal color format: ", color >>))

readColor(color) ==
    IF startswith(color, "#") THEN HexColor(Tail(color))
    ELSE DecimalColor(split(color, ","), color)

validateRecordType(ref, code) ==
    IF ref.recordType # code
    THEN Raise(<< "Invalid CML comment type. Expected: '", code,
                  "'. Received: '", ref.recordType, "'." >>)
    ELSE Ok(None)

VERSION == 1

\* CMLVersion.validate that accepts any version.
CMLVersionUnchecked(cmlComment) == Ok(None)

CMLVersion_validate(cmlComment) ==
    IF cmlComment.version > VERSION
    THEN Raise(<< "The CML comment version ", cmlComment.version,
                  " is not supported. Max supported version is ", VERSION >>)
    ELSE Ok(None)

\* The outcome of the first of two calls that raised, else of the second.
Then(first, second) == IF first.raised THEN first ELSE second

\* validateRecordType and CMLVersion.validate, the first lines of every
\* validate.
TypeAndVersion(ref, code) ==
    Then(validateRecordType(ref, code), CMLVersion_validate(ref))

\* CMLsw.validate; the value is the validated annotation.
CMLsw_validate(ref) ==
    Then(TypeAndVersion(ref, "sw"), Ok([CODE |-> "sw", ref |-> ref]))

CMLsw(ref) == CMLsw_validate(ref)

\* readColor of the property, None when the comment does not supply it.
ColorProperty(ref, name) ==
    IF name \in DOMAIN ref.properties
    THEN readColor(ref.properties[name])
    ELSE Ok(None)

\* The end of CMLcc.validate, once the three properties are read.
CustomColors(ref, bg, fg, border) ==
    IF bg.raised THEN bg
    ELSE IF fg.raised THEN fg
    ELSE IF border.raised THEN border
    ELSE IF bg.value = None /\ fg.value = None /\ border.value = None
    THEN Raise(<< "The '", "cc", "' CML comment does not supply neither ",
                  "background nor foreground color nor ", "border color" >>)
    ELSE Ok([CODE |-> "cc", ref |-> ref, bg |-> bg.value,
             fg |-> fg.value, border |-> border.value])

CMLcc_validate(ref) ==
    Then(TypeAndVersion(ref, "cc"),
         CustomColors(ref, ColorProperty(ref, "background"),
                      ColorProperty(ref, "foreground"),
                      ColorProperty(ref, "border")))

CMLcc(ref) == CMLcc_validate(ref)

\* CMLrt.validate that does not require the text.
CMLrtTextOptional(ref) ==
    Then(TypeAndVersion(ref, "rt"),
         Ok([CODE |-> "rt", ref |-> ref,
             text |-> IF "text" \in DOMAIN ref.properties
                      THEN ref.properties["text"] ELSE << >>]))

CMLrt_validate(ref) ==
    Then(TypeAndVersion(ref, "rt"),
         IF "text" \notin DOMAIN ref.properties
         THEN Raise(<< "The '", "rt", "' CML comment does not supply text" >>)
         ELSE Ok([CODE |-> "rt", ref |-> ref, text |-> ref.properties["text"]]))

CMLrt(ref) == CMLrt_validate(ref)

Class(name) == [class |-> name]

\* COMMENT_TYPES before the 'rt' comment was supported.
CommentTypesWithoutReplaceText ==
    [code \in {"sw", "cc"} |->
        IF code = "sw" THEN Class("CMLsw") ELSE Class("CMLcc")]

COMMENT_TYPES ==
    [code \in {"sw", "cc", "rt"} |->
        IF code = "sw" THEN Class("CMLsw")
        ELSE IF code = "cc" THEN Class("CMLcc")
        ELSE Class("CMLrt")]

\* A typed annotation has no recordType attribute: the lookup raises an
\* AttributeError, which getType does not catch.
getType(cmlComment) ==
    IF "recordType" \notin DOMAIN cmlComment
    THEN Raise(<< "AttributeError" >>)
    ELSE IF cmlComment.recordType \in DOMAIN COMMENT_TYPES
    THEN Ok(COMMENT_TYPES[cmlComment.recordType])
    ELSE Ok(None)

\* cmlType( cmlComment ): the constructor of the class.
New(cmlType, cmlComment) ==
    IF cmlType = Class("CMLsw") THEN CMLsw(cmlComment)
    ELSE IF cmlType = Class("CMLcc") THEN CMLcc(cmlComment)
    ELSE CMLrt(cmlComment)

\* The warning tuple of the comment.
Warning(cmlComment, message) ==
    << cmlComment.parts[1].beginLine, cmlComment.parts[1].beginPos, message >>

\* The loop of validateCMLList from the given index on; Visit is its body
\* for one comment, of the given type.
RECURSIVE ValidateFrom(_, _, _)
RECURSIVE Construct(_, _, _, _)
RECURSIVE Visit(_, _, _, _)
ValidateFrom(list, index, warns) ==
    IF index > Len(list)
    THEN [raised |-> FALSE, comments |-> list, warnings |-> warns]
    ELSE Visit(list, index, warns, getType(list[index]))

Construct(list, index, warns, highLevel) ==
    IF ~highLevel.raised
    THEN ValidateFrom([list EXCEPT ![index] = highLevel.value], index + 1,
                      warns)
    ELSE ValidateFrom(list, index + 1,
             Append(warns,
                 Warning(list[index],
                     << "Invalid CML comment: " >> \o highLevel.message)))

Visit(list, index, warns, cmlType) ==
    IF cmlType.raised
    THEN [raised |-> TRUE, comments |-> list, warnings |-> << >>]
    ELSE IF cmlType.value # None
    THEN Construct(list, index, warns, New(cmlType.value, list[index]))
    ELSE ValidateFrom(list, index + 1,
             Append(warns,
                 Warning(list[index],
                     << "CML comment type '", list[index].recordType,
                        "' is not supported" >>)))

validateCMLList(list) ==
    IF list # << >> THEN ValidateFrom(list, 1, << >>)
    ELSE [raised |-> FALSE, comments |-> list, warnings |-> << >>]

-----------------------------------------------------------------------------
(* The comment lists that the control flow parser hands over *)

\* "#aabbcc" and "300,0,0"
ColorSpecs ==
    { << "#", "a", "a", "b", "b", "c", "c" >>,
      << "3", "0", "0", ",", "0", ",", "0" >> }

Texts == { << "h", "i" >> }

\* Below, at and above the supported version.
Versions == { VERSION - 1, VERSION, VERSION + 1 }

ColorProperties ==
    UNION { [keys -> ColorSpecs] :
                keys \in SUBSET {"background", "foreground", "border"} }

TextProperties == UNION { [keys -> Texts] : keys \in SUBSET {"text"} }

NoProperties == [key \in {} |-> << >>]

RawComment(code, version, properties, line) ==
    [recordType |-> code, version |-> version, properties |-> properties,
     parts |-> << [beginLine |-> line, beginPos |-> 1] >>]

RECURSIVE PropertyCount(_)
PropertyCount(list) ==
    IF list = << >> THEN 0
    ELSE Cardinality(DOMAIN Head(list).properties) + PropertyCount(Tail(list))

\* The parser appends one more comment to the list.
Parsed(code, version, properties) ==
    /\ op \in {"init", "parse"}
    /\ Len(comments) < MaxComments
    /\ PropertyCount(comments) + Cardinality(DOMAIN properties)
           <= MaxProperties
    /\ comments' = Append(comments,
           RawComment(code, version, properties, Len(comments) + 1))
    /\ op' = "parse"
    /\ UNCHANGED << ctxVars, warnings, raw, raised, restVars >>

ParseSwitch == \E v \in Versions : Parsed("sw", v, NoProperties)

ParseCustomColors ==
    \E v \in Versions, p \in ColorProperties : Parsed("cc", v, p)

ParseReplaceText ==
    \E v \in Versions, p \in TextProperties : Parsed("rt", v, p)

ParseUnsupported == \E v \in Versions : Parsed("xx", v, NoProperties)

ValidateCMLList ==
    /\ op \in {"init", "parse", "validateCMLList"}
    /\ LET result == validateCMLList(comments)
       IN  /\ comments' = result.comments
           /\ warnings' = result.warnings
           /\ raised' = result.raised
    /\ raw' = comments
    /\ op' = "validateCMLList"
    /\ UNCHANGED << ctxVars, restVars >>

InitCML ==
    /\ text = << >>
    /\ indentWidth = 4
    /\ info = BriefModuleInfo(<< >>)
    /\ lexer = "python"
    /\ cursorLine = 0
    /\ cursorPos = 0
    /\ skipDef = TRUE
    /\ skipBlank = FALSE
    /\ context = NewContext
    /\ op = "init"
    /\ comments = << >>
    /\ warnings = << >>
    /\ raw = << >>
    /\ raised = FALSE
    /\ IdleRest

NextCML ==
    \/ ParseSwitch
    \/ ParseCustomColors
    \/ ParseReplaceText
    \/ ParseUnsupported
    \/ ValidateCMLList

SpecCML == InitCML /\ [][NextCML]_vars

-----------------------------------------------------------------------------
(* What the buffer itself says about its scopes, for stating the claims *)

\* The frames of a context as << header line, scope type >> pairs.
Frames(ctx) == [i \in 1..ctx.length |-> << ctx.levels[i][1].name, ctx.levels[i][2] >>]

RECURSIVE Chain(_, _)
\* The headers that enclose header h, outermost first, h included.
Chain(t, h) == IF h = 0 THEN << >> ELSE Append(Chain(t, ParentOf(t, h)), h)

\* The scope type of the definition whose header is line h.
KindOf(t, h) ==
    IF t[h].kind = "class" THEN ClassScope
    ELSE IF ParentOf(t, h) # 0 /\ t[ParentOf(t, h)].kind = "class"
         THEN ClassMethodScope
         ELSE FunctionScope

\* The stack of the scope opened by header h (the empty stack for h = 0).
StackOf(t, h) ==
    LET chain == Chain(t, h)
    IN  [i \in 1..Len(chain) |-> << chain[i], KindOf(t, chain[i]) >>]

\* A getContext call on a python editor at the cursor itself has returned.
Resolved == op = "getContext" /\ lexer = "python" /\ ~skipBlank

\* The line under the cursor, 1-based as the outline counts lines.
CurLine == cursorLine + 1

\* The cursor is in the text of a statement of the body of a function.
InFunctionBody ==
    /\ Resolved
    /\ text[CurLine].kind = "stmt"
    /\ cursorPos >= text[CurLine].ind
    /\ ParentOf(text, CurLine) # 0
    /\ text[ParentOf(text, CurLine)].kind = "def"

\* C1: for every cursor position inside the body of a function F (in the
\* text of one of F's own statements, so after F's colon and in no nested
\* definition) getContext returns a stack whose last frame is F, with scope
\* Function, or ClassMethod when F is a direct child of a class.
C1_LastFrameIsFunction ==
    InFunctionBody =>
        /\ context.length > 0
        /\ getInfoObj(context).name = ParentOf(text, CurLine)
        /\ getScope(context) = KindOf(text, ParentOf(text, CurLine))

\* The buffer of the example: class A at line 1, its method m at line 2, a
\* statement of m's body at line 3, and the cursor at line 3, column 5
\* (0-based column 4) inside that body.
C2_Example ==
    /\ Resolved
    /\ Len(text) >= 3
    /\ text[1].kind = "class"
    /\ text[2].kind = "def" /\ ParentOf(text, 2) = 1
    /\ text[3].kind = "stmt" /\ ParentOf(text, 3) = 2
    /\ cursorLine = 2
    /\ cursorPos = 4
    /\ cursorPos >= text[3].ind

\* C2: in the example getContext returns exactly [(A, Class), (m, ClassMethod)].
C2_ClassThenMethod ==
    C2_Example =>
        Frames(context) = << << 1, ClassScope >>, << 2, ClassMethodScope >> >>

\* The cursor is on the header of the definition at line h: on one of its
\* lines, between the first character of its first decorator (of its
\* keyword when it has no decorator) and its colon, both included, in
\* (line, column) order with 1-based columns, and not in the indentation.
OnHeader(h) ==
    LET col       == cursorPos + 1
        decorated == h > 1 /\ text[h - 1].kind = "deco"
        firstLine == IF decorated THEN h - 1 ELSE h
        firstCol  == text[h].ind + 1
        colonCol  == text[h].ind + 8
    IN  /\ IsHeader(text[h])
        /\ CurLine \in firstLine..h
        /\ col >= firstCol
        /\ CurLine = h => col <= colonCol

Headers == { h \in 1..Len(text) : IsHeader(text[h]) }

\* C3: with skipDef = False, for every cursor position on the header of a
\* class, the last frame of the returned stack is that class with scope
\* Class, at any nesting depth.
C3_ClassHeaderIsLastFrame ==
    \A h \in Headers :
        (Resolved /\ ~skipDef /\ text[h].kind = "class" /\ OnHeader(h)) =>
            /\ context.length > 0
            /\ getInfoObj(context).name = h
            /\ getScope(context) = ClassScope

\* C4: with skipDef = True, when the cursor is on the header of a definition
\* D, the returned stack is the stack of the scope that encloses D.
C4_HeaderBelongsToEnclosing ==
    \A h \in Headers :
        (Resolved /\ skipDef /\ OnHeader(h)) =>
            Frames(context) = StackOf(text, ParentOf(text, h))

\* The cursor is on a blank line that trails the last statement s of the
\* body of a class or of a function, at or right of the column of s.
TrailsStatement(s) ==
    /\ Resolved
    /\ s \in 1..(CurLine - 1)
    /\ text[s].kind = "stmt"
    /\ ParentOf(text, s) # 0
    /\ \A n \in (s + 1)..CurLine : text[n].kind = "blank"
    /\ \A n \in (CurLine + 1)..Len(text) :
           IsCode(text[n]) => text[n].ind < text[s].ind
    /\ cursorPos >= text[s].ind

\* C5: for every cursor position after the last statement of a class or
\* function, on a trailing blank line within the block's indentation,
\* getContext returns the same stack as for the cursor on that statement.
C5_TrailingBlankLines ==
    \A s \in 1..Len(text) :
        TrailsStatement(s) =>
            context = getContext(text, lexer, info, s - 1, cursorPos,
                                 FALSE, skipDef)

W5_TrailingBlankInScope ==
    \E s \in 1..Len(text) : TrailsStatement(s) /\ context.length > 0

\* C6: on an editor that is not a python editor getContext returns the
\* empty stack, whose scope is Global and whose info object is None.
C6_NonPythonIsGlobal ==
    (op = "getContext" /\ lexer # "python") =>
        /\ context.levels = << >>
        /\ context.length = 0
        /\ getScope(context) = GlobalScope
        /\ getInfoObj(context) = None

W6_NonPythonInsideDefinition ==
    /\ op = "getContext"
    /\ lexer = "other"
    /\ getContext(text, "python", info, cursorLine, cursorPos, skipBlank,
                  skipDef).length > 0

Range(f) == { f[i] : i \in DOMAIN f }

Children(infoObj) == Range(infoObj.classes) \cup Range(infoObj.functions)

\* The last line of the block of the definition whose header is line h.
BlockEnd(t, h) ==
    CHOOSE n \in h..Len(t) :
        /\ \A m \in (h + 1)..n : IsCode(t[m]) => t[m].ind > t[h].ind
        /\ n < Len(t) => (IsCode(t[n + 1]) /\ t[n + 1].ind <= t[h].ind)

\* The cursor position that getContext resolves.
Effective ==
    IF skipBlank THEN SkipBlankLinesBack(text, cursorLine)
    ELSE [line |-> cursorLine, pos |-> cursorPos]

\* The stack of the scope walk, before the indentation pass.
Walked ==
    IdentifyScope(info, NewContext, Effective.line + 1, Effective.pos, skipDef)

\* C7: the frames of every returned stack are ordered outermost first, each
\* frame's definition is a child of the definition of the frame before it
\* and lies within its span, and the indentation pass keeps a prefix of the
\* stack of the scope walk.
C7_MonotonicallyNested ==
    op = "getContext" =>
        /\ context.length = Len(context.levels)
        /\ context.length > 0 => context.levels[1][1] \in Children(info)
        /\ \A i \in 1..(context.length - 1) :
               LET outer == context.levels[i][1]
                   inner == context.levels[i + 1][1]
               IN  /\ inner \in Children(outer)
                   /\ outer.line < inner.line
                   /\ BlockEnd(text, inner.line) <= BlockEnd(text, outer.line)
        /\ lexer = "python" =>
               /\ context.length <= Walked.length
               /\ context.levels = SubSeq(Walked.levels, 1, context.length)

W7_StrippedToNested ==
    /\ op = "getContext"
    /\ lexer = "python"
    /\ context.length >= 2
    /\ context.length < Walked.length

-----------------------------------------------------------------------------
(* CML validation: claims *)

\* A list of raw comments has been validated.
Validated ==
    /\ op = "validateCMLList"
    /\ \A i \in 1..Len(raw) : "recordType" \in DOMAIN raw[i]

IsTyped(c) == "CODE" \in DOMAIN c

\* The typed annotation that comment c is replaced by.
TypedOf(c) ==
    IF c.recordType = "sw" THEN CMLsw(c)
    ELSE IF c.recordType = "cc" THEN CMLcc(c)
    ELSE CMLrt(c)

Validates(c) == c.recordType \in {"sw", "cc", "rt"} /\ ~TypedOf(c).raised

\* The warnings reported at the position of comment c.
WarningsAt(c) ==
    { k \in 1..Len(warnings) :
          /\ warnings[k][1] = c.parts[1].beginLine
          /\ warnings[k][2] = c.parts[1].beginPos }

Converted(i) ==
    /\ IsTyped(comments[i])
    /\ comments[i].CODE = raw[i].recordType
    /\ comments[i].ref = raw[i]
    /\ WarningsAt(raw[i]) = {}

Unconverted(i) ==
    /\ comments[i] = raw[i]
    /\ Cardinality(WarningsAt(raw[i])) = 1
    /\ \A k \in WarningsAt(raw[i]) : Len(warnings[k]) = 3

\* C8: validateCMLList does not abort on a list of raw comments; a comment
\* whose code is sw, cc or rt and that validates is replaced in place by its
\* typed annotation without a warning, any other comment stays as it is and
\* gets exactly one (line, column, message) warning, so the warnings and the
\* converted entries together are as many as the comments.
C8_WarningOrAnnotation ==
    Validated =>
        /\ ~raised
        /\ Len(comments) = Len(raw)
        /\ \A i \in 1..Len(raw) :
               IF Validates(raw[i])
               THEN Converted(i) /\ comments[i] = TypedOf(raw[i]).value
               ELSE Unconverted(i)
        /\ Len(warnings)
               + Cardinality({ i \in 1..Len(comments) : IsTyped(comments[i]) })
           = Len(raw)

W8_MixedList ==
    /\ Validated
    /\ Len(raw) = 2
    /\ raw[1].recordType = "xx"
    /\ raw[2].recordType = "rt"
    /\ IsTyped(comments[2])
    /\ Len(warnings) = 1

ColorKeys(c) == DOMAIN c.properties \cap {"background", "foreground", "border"}

ValidColor(s) == ~readColor(s).raised

Supported(c) == c.version <= VERSION

\* C9 as stated: a cc comment without background, foreground and border is
\* rejected and one in which at least one of them is a valid color is
\* accepted; an rt comment without text is rejected.
C9_AtLeastOneValidColor ==
    Validated =>
        \A i \in 1..Len(raw) :
            /\ (raw[i].recordType = "cc" /\ ColorKeys(raw[i]) = {})
                   => Unconverted(i)
            /\ (/\ raw[i].recordType = "cc"
                /\ Supported(raw[i])
                /\ \E k \in ColorKeys(raw[i]) : ValidColor(raw[i].properties[k]))
                   => Converted(i)
            /\ (raw[i].recordType = "rt" /\ "text" \notin DOMAIN raw[i].properties)
                   => Unconverted(i)

\* C9, amended: a cc comment without background, foreground and border is
\* rejected; a cc comment of a supported version is accepted exactly when it
\* supplies at least one of them and every one it supplies is a valid
\* color; an rt comment without text is rejected and an rt comment of a
\* supported version with a text is accepted.
C9_RequiredProperties ==
    Validated =>
        \A i \in 1..Len(raw) :
            /\ (raw[i].recordType = "cc" /\ ColorKeys(raw[i]) = {})
                   => Unconverted(i)
            /\ (raw[i].recordType = "cc" /\ Supported(raw[i])) =>
                   IF /\ ColorKeys(raw[i]) # {}
                      /\ \A k \in ColorKeys(raw[i]) :
                             ValidColor(raw[i].properties[k])
                   THEN Converted(i)
                   ELSE Unconverted(i)
            /\ (raw[i].recordType = "rt" /\ "text" \notin DOMAIN raw[i].properties)
                   => Unconverted(i)
            /\ (/\ raw[i].recordType = "rt"
                /\ Supported(raw[i])
                /\ "text" \in DOMAIN raw[i].properties)
                   => Converted(i) /\ comments[i].text = raw[i].properties["text"]

W9_MixedColorsAndMissingText ==
    /\ Validated
    /\ Len(raw) = 2
    /\ raw[1].recordType = "cc"
    /\ Supported(raw[1])
    /\ \E k \in ColorKeys(raw[1]) : ValidColor(raw[1].properties[k])
    /\ \E k \in ColorKeys(raw[1]) : ~ValidColor(raw[1].properties[k])
    /\ comments[1] = raw[1]
    /\ raw[2].recordType = "rt"
    /\ Supported(raw[2])
    /\ "text" \notin DOMAIN raw[2].properties
    /\ comments[2] = raw[2]

\* The warning of comment c reports an unsupported version.
VersionWarning(c) ==
    \E k \in WarningsAt(c) :
        /\ warnings[k][3][1] = "Invalid CML comment: "
        /\ warnings[k][3][2] = "The CML comment version "

\* C10: the supported version is 1; an sw, cc or rt comment whose version is
\* above it fails validation and is reported as of an unsupported version;
\* a comment whose version is not above it passes the version check, so that
\* it is never reported for its version and an sw comment is accepted.
C10_VersionCheck ==
    /\ VERSION = 1
    /\ Validated =>
           \A i \in 1..Len(raw) :
               raw[i].recordType \in {"sw", "cc", "rt"} =>
                   IF raw[i].version > 1
                   THEN Unconverted(i) /\ VersionWarning(raw[i])
                   ELSE /\ ~CMLVersion_validate(raw[i]).raised
                        /\ ~VersionWarning(raw[i])
                        /\ raw[i].recordType = "sw" => Converted(i)

W10_NewerAndSupported ==
    /\ Validated
    /\ Len(raw) = 2
    /\ raw[1].recordType = "cc"
    /\ raw[1].version > VERSION
    /\ ColorKeys(raw[1]) # {}
    /\ \A k \in ColorKeys(raw[1]) : ValidColor(raw[1].properties[k])
    /\ comments[1] = raw[1]
    /\ raw[2].recordType = "sw"
    /\ raw[2].version = VERSION
    /\ IsTyped(comments[2])

-----------------------------------------------------------------------------
(* Color specs: readColor of src/flowui/cml.py on typed text *)

\* The number of hexadecimal pairs or decimal parts of a typed color spec.
MaxChannels == 4

\* Two characters of a hexadecimal spec: digits, a signed digit, a letter
\* that is no digit, a negative number.
HexPairs ==
    { << "a", "a" >>, << "b", "b" >>, << "c", "c" >>, << "f", "f" >>,
      << "0", "0" >>, << "8", "0" >>, << "+", "f" >>, << "g", "0" >>,
      << "-", "1" >> }

\* One part of a decimal spec.
DecimalParts ==
    { << "1", "7", "0" >>, << "1", "8", "7" >>, << "2", "0", "4" >>,
      << "2", "5", "5" >>, << "0" >>, << "1", "2", "8" >>,
      << "3", "0", "0" >>, << "-", "1" >>, << " ", "7" >>, << "+", "5" >>,
      << "x" >> }

Typing == op \in {"init", "type"}

Typed_color(t) ==
    /\ Typing
    /\ colorText' = t
    /\ op' = "type"
    /\ UNCHANGED << exceptColor, qcolor >>

TypeHash == colorText = << >> /\ Typed_color(<< "#" >>)

TypeHexPair ==
    /\ startswith(colorText, "#")
    /\ Len(colorText) % 2 = 1
    /\ Len(colorText) \div 2 < MaxChannels
    /\ \E pair \in HexPairs : Typed_color(colorText \o pair)

\* A single digit, which leaves the spec with an odd number of digits.
TypeHexDigit ==
    /\ startswith(colorText, "#")
    /\ Len(colorText) % 2 = 1
    /\ Len(colorText) \div 2 < MaxChannels
    /\ Typed_color(Append(colorText, "a"))

TypeDecimalPart ==
    /\ ~startswith(colorText, "#")
    /\ IF colorText = << >> THEN TRUE ELSE colorText[Len(colorText)] = ","
    /\ \E part \in DecimalParts : Typed_color(colorText \o part)

TypeComma ==
    /\ ~startswith(colorText, "#")
    /\ Len(split(colorText, ",")) < MaxChannels
    /\ Typed_color(Append(colorText, ","))

ReadColor ==
    /\ Typing
    /\ qcolor' = readColor(colorText)
    /\ op' = "readColor"
    /\ UNCHANGED << exceptColor, colorText >>

IdleCtx ==
    /\ text = << >>
    /\ indentWidth = 4
    /\ info = BriefModuleInfo(<< >>)
    /\ lexer = "python"
    /\ cursorLine = 0
    /\ cursorPos = 0
    /\ skipDef = TRUE
    /\ skipBlank = FALSE
    /\ context = NewContext

IdleCML ==
    /\ comments = << >>
    /\ warnings = << >>
    /\ raw = << >>
    /\ raised = FALSE

InitColor ==
    /\ IdleCtx
    /\ IdleCML
    /\ op = "init"
    /\ colorText = << >>
    /\ qcolor = None
    /\ IdleGen
    /\ IdleMouse
    /\ IdleLayout
    /\ IdleCalls
    /\ IdleTabs
    /\ IdleZoom

NextColor ==
    \/ TypeHash
    \/ TypeHexPair
    \/ TypeHexDigit
    \/ TypeDecimalPart
    \/ TypeComma
    \/ ReadColor

SpecColor == InitColor /\ [][NextColor]_vars

-----------------------------------------------------------------------------
(* readColor: claims *)

\* The decimal numeral of a natural number.
RECURSIVE str(_)
str(n) ==
    IF n < 10 THEN << DecDigits[n + 1] >>
    ELSE str(n \div 10) \o << DecDigits[(n % 10) + 1] >>

RECURSIVE join(_, _)
join(parts, sep) ==
    IF Len(parts) = 0 THEN << >>
    ELSE IF Len(parts) = 1 THEN parts[1]
    ELSE parts[1] \o << sep >> \o join(Tail(parts), sep)

IsHexDigit(c) == c \in DOMAIN DigitTable

IsDecDigit(c) == c \in DOMAIN DigitTable /\ DigitTable[c] < 10

\* #hhhhhh or #hhhhhhhh
IsHexFormat(s) ==
    /\ Len(s) \in {7, 9}
    /\ s[1] = "#"
    /\ \A i \in 2..Len(s) : IsHexDigit(s[i])

\* The channel values of a spec in the hexadecimal format.
HexChannels(s) ==
    [i \in 1..((Len(s) - 1) \div 2) |->
        16 * DigitTable[s[2 * i]] + DigitTable[s[2 * i + 1]]]

IsNumeral(part) ==
    /\ part # << >>
    /\ \A i \in 1..Len(part) : IsDecDigit(part[i])

\* ddd,ddd,ddd or ddd,ddd,ddd,ddd; blanks around a number are let through.
IsDecimalFormat(s) ==
    /\ Len(split(s, ",")) \in {3, 4}
    /\ \A i \in 1..Len(split(s, ",")) : IsNumeral(strip(split(s, ",")[i]))

\* The channel values of a spec in the decimal format.
DecimalChannels(s) ==
    [i \in 1..Len(split(s, ",")) |->
        DigitsValue(strip(split(s, ",")[i]), 10)]

IsColorFormat(s) == IsHexFormat(s) \/ IsDecimalFormat(s)

ChannelsOf(s) == IF IsHexFormat(s) THEN HexChannels(s) ELSE DecimalChannels(s)

InRange(channels) == \A i \in 1..Len(channels) : channels[i] \in 0..255

ColorOf(channels) ==
    QColor(channels[1], channels[2], channels[3],
           IF Len(channels) = 4 THEN channels[4] ELSE 255)

IsColorFormatError(result) ==
    /\ result.raised
    /\ result.message[1] \in { "Invalid hexadecimal color format: #",
                               "Invalid decimal color format: " }

\* Part of C11: a spec in one of the four formats with its channels in
\* 0..255 reads as the color of these channels, and the decimal spec that
\* lists the channel values of a hexadecimal spec reads as the same color.
ReadColorOfWellFormed ==
    (op = "readColor" /\ IsColorFormat(colorText)
        /\ InRange(ChannelsOf(colorText))) =>
        /\ qcolor = Ok(ColorOf(ChannelsOf(colorText)))
        /\ readColor(join([i \in 1..Len(ChannelsOf(colorText)) |->
                              str(ChannelsOf(colorText)[i])], ",")) = qcolor

\* Part of C11: every channel of a returned color is in 0..255, and a spec
\* with a channel outside 0..255 fails with a color-format error.
ReadColorInRange ==
    op = "readColor" =>
        /\ ~qcolor.raised =>
               \A c \in {qcolor.value.r, qcolor.value.g, qcolor.value.b,
                         qcolor.value.a} : c \in 0..255
        /\ (IsColorFormat(colorText) /\ ~InRange(ChannelsOf(colorText)))
               => IsColorFormatError(qcolor)
        /\ qcolor.raised => IsColorFormatError(qcolor)

\* C11: readColor reads #RRGGBB, #RRGGBBAA and the decimal spec of the same
\* channel values as the same color (#ff000080 is RGBA 255,0,0,128), every
\* channel of a returned color is in 0..255, and a spec with a channel
\* outside 0..255 or in none of the four formats fails with a color-format
\* error.
C11_ReadColor ==
    /\ ReadColorOfWellFormed
    /\ ReadColorInRange
    /\ (op = "readColor"
           /\ colorText = << "#", "f", "f", "0", "0", "0", "0", "8", "0" >>)
           => qcolor = Ok(QColor(255, 0, 0, 128))
    /\ (op = "readColor" /\ ~IsColorFormat(colorText))
           => IsColorFormatError(qcolor)

-----------------------------------------------------------------------------
(* generate() of CMLsw, CMLcc and CMLrt, and the comment line read back *)

\* The length of a replacement text.
MaxTextLen == 2

\* The python strings of the words of a CML comment.
Spelling ==
    [w \in {"cml", "sw", "cc", "rt", "background", "foreground", "border",
            "text"} |->
        CASE w = "cml" -> << "c", "m", "l" >>
          [] w = "sw" -> << "s", "w" >>
          [] w = "cc" -> << "c", "c" >>
          [] w = "rt" -> << "r", "t" >>
          [] w = "background" ->
                 << "b", "a", "c", "k", "g", "r", "o", "u", "n", "d" >>
          [] w = "foreground" ->
                 << "f", "o", "r", "e", "g", "r", "o", "u", "n", "d" >>
          [] w = "border" -> << "b", "o", "r", "d", "e", "r" >>
          [] w = "text" -> << "t", "e", "x", "t" >>]

\* " " * n
Spaces(n) == [i \in 1..n |-> " "]

\* The hexadecimal digits of a natural number, as in hex( n )[ 2: ].
RECURSIVE HexDigits(_)
HexDigits(n) ==
    IF n < 16 THEN << LowerDigits[n + 1] >>
    ELSE HexDigits(n \div 16) \o << LowerDigits[(n % 16) + 1] >>

\* The builtin hex( n ).
hex(n) == << "0", "x" >> \o HexDigits(n)

\* QColor.name(): "#rrggbb".
name(c) ==
    << "#" >> \o << LowerDigits[(c.r \div 16) + 1], LowerDigits[(c.r % 16) + 1],
                    LowerDigits[(c.g \div 16) + 1], LowerDigits[(c.g % 16) + 1],
                    LowerDigits[(c.b \div 16) + 1], LowerDigits[(c.b % 16) + 1] >>

\* s.replace( old, new ) for a one-character old.
RECURSIVE replace(_, _, _)
replace(s, old, new) ==
    IF s = << >> THEN << >>
    ELSE (IF Head(s) = old THEN new ELSE << Head(s) >>)
             \o replace(Tail(s), old, new)

CMLsw_generate(pos) ==
    Ok(Spaces(pos - 1) \o << "#", " " >> \o Spelling["cml"] \o << " ", "1", " " >>
           \o Spelling["sw"])

\* The text that generate appends for one color: its name and, when the
\* color is not opaque, the hexadecimal digits of its alpha.
ColorText(c) ==
    IF c.a # 255 THEN name(c) \o SubSeq(hex(c.a), 3, Len(hex(c.a)))
    ELSE name(c)

\* " key=" + value when the color is given.
ColorArgument(res, key, c) ==
    IF c # None
    THEN res \o << " " >> \o Spelling[key] \o << "=" >> \o ColorText(c)
    ELSE res

\* CMLcc.generate: the parameter is spelled backgound and the body reads
\* background, a name that nothing defines.
CMLcc_generate(backgound, foreground, border, pos) ==
    IF backgound # None
    THEN Raise(<< "NameError: global name 'background' is not defined" >>)
    ELSE Ok(ColorArgument(
                ColorArgument(
                    Spaces(pos - 1) \o << "#", " " >> \o Spelling["cml"]
                        \o << " ", "1", " " >> \o Spelling["cc"],
                    "foreground", foreground),
                "border", border))

\* A text argument is None or Str(chars).
Str(chars) == [str |-> chars]

CMLrt_generate(txt, pos) ==
    Ok(Spaces(pos - 1) \o << "#", " " >> \o Spelling["cml"] \o << " ", "1", " " >>
           \o Spelling["rt"]
           \o (IF txt # None
               THEN << " " >> \o Spelling["text"] \o << "=", "\"" >>
                        \o replace(txt.str, "\"", << "\\", "\"" >>)
                        \o << "\"" >>
               ELSE << >>))

-----------------------------------------------------------------------------
(* The comment parser: # cml <version> <code> <key=value>...               *)
(* Words are separated by blanks; a value may be written in double quotes, *)
(* inside which a backslash keeps the character that follows it.           *)

NoWord(word) == IF word = << >> THEN << >> ELSE << word >>

\* The words of s from position i on; word is the word read so far.
RECURSIVE Words(_, _, _, _)
Words(s, i, word, quoted) ==
    IF i > Len(s) THEN NoWord(word)
    ELSE IF quoted /\ s[i] = "\\" /\ i < Len(s)
    THEN Words(s, i + 2, word \o << s[i], s[i + 1] >>, TRUE)
    ELSE IF s[i] = "\""
    THEN Words(s, i + 1, Append(word, s[i]), ~quoted)
    ELSE IF ~quoted /\ s[i] = " "
    THEN NoWord(word) \o Words(s, i + 1, << >>, FALSE)
    ELSE Words(s, i + 1, Append(word, s[i]), quoted)

\* The text of a quoted value without its backslashes.
RECURSIVE Unescaped(_)
Unescaped(s) ==
    IF s = << >> THEN << >>
    ELSE IF Head(s) = "\\" /\ Len(s) > 1
    THEN << s[2] >> \o Unescaped(SubSeq(s, 3, Len(s)))
    ELSE << Head(s) >> \o Unescaped(Tail(s))

IsQuoted(value) ==
    Len(value) >= 2 /\ value[1] = "\"" /\ value[Len(value)] = "\""

Value(value) ==
    IF IsQuoted(value) THEN Unescaped(SubSeq(value, 2, Len(value) - 1))
    ELSE value

\* The name that a word spells, "?" when it spells none.
NameOf(word) ==
    IF \E w \in DOMAIN Spelling : Spelling[w] = word
    THEN CHOOSE w \in DOMAIN Spelling : Spelling[w] = word
    ELSE "?"

KeyOf(word) == NameOf(SubSeq(word, 1, Len(split(word, "=")[1])))

ValueOf(word) ==
    Value(SubSeq(word, Len(split(word, "=")[1]) + 2, Len(word)))

\* The raw CML comment of a comment line, None when the line is none.
parse(line) ==
    LET pos == Len(line) - Len(lstrip(line)) + 1
        words == Words(lstrip(line), 2, << >>, FALSE)
    IN  IF /\ startswith(lstrip(line), "#")
           /\ Len(words) >= 3
           /\ words[1] = Spelling["cml"]
           /\ IsNumeral(words[2])
           /\ \A k \in 4..Len(words) : Len(split(words[k], "=")) >= 2
        THEN [recordType |-> NameOf(words[3]),
              version |-> DigitsValue(words[2], 10),
              properties |->
                  [key \in { KeyOf(words[k]) : k \in 4..Len(words) } |->
                      ValueOf(words[CHOOSE k \in 4..Len(words) :
                                        KeyOf(words[k]) = key
                                        /\ \A j \in (k + 1)..Len(words) :
                                               KeyOf(words[j]) # key])],
              parts |-> << [beginLine |-> 1, beginPos |-> pos] >>]
        ELSE None

-----------------------------------------------------------------------------
(* Generating a comment line and reading it back *)

GenColors ==
    { None, QColor(170, 187, 204, 255), QColor(255, 0, 0, 128),
      QColor(0, 0, 0, 5) }

TextChars == { "a", " ", "\"", "\\" }

GenTexts ==
    {None} \cup { Str(chars) :
                     chars \in UNION { [1..n -> TextChars] : n \in 0..MaxTextLen } }

\* The column at which the comment is inserted.
GenPositions == {1, 5}

\* The end of every generate action.
Generated ==
    /\ genResult' = None
    /\ op' = "generate"
    /\ UNCHANGED exceptGen

GenerateSw ==
    \E pos \in GenPositions :
        /\ genInput' = [CODE |-> "sw", pos |-> pos]
        /\ genLine' = CMLsw_generate(pos)
        /\ Generated

GenerateCc ==
    \E backgound \in GenColors, foreground \in GenColors,
       border \in GenColors, pos \in GenPositions :
        /\ genInput' = [CODE |-> "cc", bg |-> backgound, fg |-> foreground,
                        border |-> border, pos |-> pos]
        /\ genLine' = CMLcc_generate(backgound, foreground, border, pos)
        /\ Generated

GenerateRt ==
    \E txt \in GenTexts, pos \in GenPositions :
        /\ genInput' = [CODE |-> "rt", text |-> txt, pos |-> pos]
        /\ genLine' = CMLrt_generate(txt, pos)
        /\ Generated

\* The generated line is parsed and the comment validated.
ParseGenerated ==
    /\ op = "generate"
    /\ ~genLine.raised
    /\ genResult' =
           IF parse(genLine.value) = None THEN None
           ELSE validateCMLList(<< parse(genLine.value) >>)
    /\ op' = "parse"
    /\ UNCHANGED << exceptGen, genInput, genLine >>

InitGen ==
    /\ IdleCtx
    /\ IdleCML
    /\ IdleColor
    /\ IdleGen
    /\ IdleMouse
    /\ IdleLayout
    /\ IdleCalls
    /\ IdleTabs
    /\ IdleZoom
    /\ op = "init"

NextGen ==
    \/ GenerateSw
    \/ GenerateCc
    \/ GenerateRt
    \/ ParseGenerated

SpecGen == InitGen /\ [][NextGen]_vars

-----------------------------------------------------------------------------
(* generate(): claims *)

\* The arguments make a valid annotation: a cc with at least one color, an
\* rt with a text.
ValidInput ==
    /\ genInput # None
    /\ genInput.CODE = "cc" =>
           (genInput.bg # None \/ genInput.fg # None \/ genInput.border # None)
    /\ genInput.CODE = "rt" => genInput.text # None

\* The annotation read back has the code and the properties of the
\* arguments.
SameAnnotation ==
    /\ genResult # None
    /\ ~genResult.raised
    /\ genResult.warnings = << >>
    /\ IsTyped(genResult.comments[1])
    /\ genResult.comments[1].CODE = genInput.CODE
    /\ genInput.CODE = "cc" =>
           /\ genResult.comments[1].bg = genInput.bg
           /\ genResult.comments[1].fg = genInput.fg
           /\ genResult.comments[1].border = genInput.border
    /\ genInput.CODE = "rt" =>
           genResult.comments[1].text = genInput.text.str

\* C12: for valid arguments generate() of CMLsw, CMLcc and CMLrt produces a
\* comment line, and the line parsed and validated again is an annotation
\* with the same code and the same properties.
C12_GenerateRoundTrip ==
    /\ (op = "generate" /\ ValidInput) => ~genLine.raised
    /\ (op = "parse" /\ ValidInput) => SameAnnotation

\* Part of C12 that holds: CMLsw, and CMLcc without a background whose
\* colors are opaque or have an alpha of two hexadecimal digits.
RoundTripOfSwitchAndOpaque ==
    (op = "parse" /\ ValidInput
        /\ genInput.CODE \in {"sw", "cc"}
        /\ (genInput.CODE = "cc" =>
               \A c \in {genInput.fg, genInput.border} :
                   c # None => c.a >= 16)) => SameAnnotation

-----------------------------------------------------------------------------
(* The control flow scene: its items, the selection and the nearest item *)
(*                                                                         *)
(* A graphics item is a record                                             *)
(*   kind, subKind : the CellElement kind and, for a scope cell, the       *)
(*                   ScopeCellElement sub kind                             *)
(*   scoped, proxy : what scopedItem() and isProxyItem() answer            *)
(*   proxied       : the place of the item a proxy item stands for         *)
(*   canvas, addr  : the canvas holding the cell and << column, row >>     *)
(*   ref           : the fragment of the parsed control flow it shows      *)
(* An item is identified by its index in items; NoItem is python's None.   *)
(* A fragment carries the absolute positions begin and end and the lines   *)
(* beginLine and endLine.                                                  *)

\* sys.maxint
maxint == 2147483647

\* The last line of the buffer a query can name.
MaxSceneLine == 8

\* The characters of a buffer line, the line end included.
LineWidth == 12

NoItem == 0

UNKNOWN == -1

TOP_LEFT == 0

LEFT == 1

BOTTOM_LEFT == 2

DECLARATION == 3

SIDE_COMMENT == 4

DOCSTRING == 5

TOP == 6

BOTTOM == 7

Abs(n) == IF n < 0 THEN -n ELSE n

\* items.distance: 0 within begin..end, the distance to the nearer end
\* otherwise.
distance(val, begin, end) ==
    IF val >= begin /\ val <= end THEN 0
    ELSE Min(Abs(val - begin), Abs(val - end))

isProxyItem(i) == items[i].proxy

scopedItem(i) == items[i].scoped

\* canvas.cells[ row ][ column ]: the cell whose address is column, row.
\* Python counts a negative index from the end; an index past the end is
\* an IndexError.
CellsOf(canvas) == { i \in DOMAIN items : ~items[i].proxy /\ items[i].canvas = canvas }

CellAt(canvas, row, column) ==
    IF \E i \in CellsOf(canvas) : items[i].addr = << column, row >>
    THEN Ok(CHOOSE i \in CellsOf(canvas) : items[i].addr = << column, row >>)
    ELSE Raise(<< "IndexError: list index out of range" >>)

getProxiedItem(i) ==
    IF items[i].proxied = None THEN NoItem
    ELSE CellAt(items[i].proxied.canvas, items[i].proxied.addr[2],
                items[i].proxied.addr[1]).value

\* getTopLeftItem that looks at the address of the declaration itself.
getTopLeftItemAtOwnAddress(i) ==
    IF items[i].subKind = DECLARATION
    THEN CellAt(items[i].canvas, items[i].addr[2], items[i].addr[1])
    ELSE Raise(<< "Logical error: the getTopLeftItem() is designed ",
                  "to be called for the DECLARATION only" >>)

getTopLeftItem(i) ==
    IF items[i].subKind = DECLARATION
    THEN CellAt(items[i].canvas, items[i].addr[2] - 1, items[i].addr[1] - 1)
    ELSE Raise(<< "Logical error: the getTopLeftItem() is designed ",
                  "to be called for the DECLARATION only" >>)

getLogicalItem(i) ==
    IF i = NoItem THEN Ok(NoItem)
    ELSE IF isProxyItem(i) THEN Ok(getProxiedItem(i))
    ELSE IF ~scopedItem(i) THEN Ok(i)
    ELSE IF items[i].subKind \in {DECLARATION} THEN getTopLeftItem(i)
    ELSE IF items[i].subKind \in {SIDE_COMMENT, DOCSTRING} THEN Ok(i)
    ELSE Ok(NoItem)

\* The last position of an assert, a raise or a return.
StatementEnd(ref) ==
    IF ref.message # None THEN ref.message.end
    ELSE IF ref.test # None THEN ref.test.end
    ELSE IF ref.value # None THEN ref.value.end
    ELSE ref.body.end

getItemVisualBeginEnd(i) ==
    IF scopedItem(i)
    THEN IF items[i].subKind = SIDE_COMMENT
         THEN << items[i].ref.sideComment.begin, items[i].ref.sideComment.end >>
         ELSE IF items[i].subKind = DOCSTRING
         THEN << items[i].ref.docstring.begin, items[i].ref.docstring.end >>
         ELSE IF items[i].kind = "FILE_SCOPE"
         THEN IF items[i].ref.docstring # None
              THEN << items[i].ref.docstring.begin, items[i].ref.body.end >>
              ELSE << items[i].ref.body.begin, items[i].ref.body.end >>
         ELSE IF items[i].kind \in {"TRY_SCOPE", "FOR_SCOPE", "WHILE_SCOPE"}
         THEN << items[i].ref.body.begin,
                 items[i].ref.suite[Len(items[i].ref.suite)].end >>
         ELSE << items[i].ref.body.begin, items[i].ref.end >>
    ELSE IF items[i].kind \in {"ABOVE_COMMENT", "LEADING_COMMENT"}
    THEN << items[i].ref.leadingComment.begin, items[i].ref.leadingComment.end >>
    ELSE IF items[i].kind = "SIDE_COMMENT"
    THEN << items[i].ref.sideComment.begin, items[i].ref.sideComment.end >>
    ELSE IF items[i].kind = "INDEPENDENT_COMMENT"
    THEN << items[i].ref.begin, items[i].ref.end >>
    ELSE IF items[i].kind \in {"ASSERT", "RAISE", "RETURN"}
    THEN << items[i].ref.body.begin, StatementEnd(items[i].ref) >>
    ELSE << items[i].ref.body.begin, items[i].ref.body.end >>

\* range a lies within range b
Within(a, b) == a[1] >= b[1] /\ a[2] <= b[2]

\* isNestedInSelected that takes every selected scope cell for a scope.
isNestedInAnySelectedCell(selection, itemToSelect) ==
    \E item \in selection :
        /\ scopedItem(item)
        /\ Within(getItemVisualBeginEnd(itemToSelect),
                  getItemVisualBeginEnd(item))

isNestedInSelected(selection, itemToSelect) ==
    \E item \in selection :
        /\ scopedItem(item)
        /\ items[item].subKind = TOP_LEFT
        /\ Within(getItemVisualBeginEnd(itemToSelect),
                  getItemVisualBeginEnd(item))

\* A deselectNested that leaves the nested items selected.
deselectNothing(selection, itemToSelect) == selection

\* The selection after deselectNested.
deselectNested(selection, itemToSelect) ==
    IF ~scopedItem(itemToSelect) THEN selection
    ELSE IF items[itemToSelect].subKind # TOP_LEFT THEN selection
    ELSE { item \in selection :
              ~Within(getItemVisualBeginEnd(item),
                      getItemVisualBeginEnd(itemToSelect)) }

\* The selection after addToSelection.
addToSelection(selection, item) ==
    IF isNestedInSelected(selection, item) THEN selection
    ELSE deselectNested(selection, item) \cup {item}

RECURSIVE ItemsFrom(_, _)
ItemsFrom(i, id) ==
    IF i > Len(items) THEN << >>
    ELSE IF ~items[i].proxy /\ items[i].ref.id = id
         THEN << i >> \o ItemsFrom(i + 1, id)
         ELSE ItemsFrom(i + 1, id)

\* The items showing the fragment: proxy items refer to an item, never to
\* a fragment.
findItemsForRef(ref) == ItemsFrom(1, ref.id)

RECURSIVE AddAll(_, _)
AddAll(selection, found) ==
    IF found = << >> THEN selection
    ELSE AddAll(addToSelection(selection, Head(found)), Tail(found))

\* The selection after mousePressEvent on the item at the position of the
\* event, logicalItem being its logical item.
Pressed(logicalItem, button, modifiers) ==
    IF button \notin {"LeftButton", "RightButton"} THEN {}
    ELSE IF button = "RightButton"
    THEN IF logicalItem = NoItem THEN {}
         ELSE IF logicalItem \notin selected THEN {logicalItem}
         ELSE selected
    ELSE IF logicalItem = NoItem THEN {}
    ELSE IF modifiers = "NoModifier" THEN {logicalItem}
    ELSE IF modifiers = "ControlModifier"
    THEN IF logicalItem \in selected THEN selected \ {logicalItem}
         ELSE addToSelection(selected, logicalItem)
    ELSE IF modifiers = "ShiftModifier"
    THEN AddAll({}, findItemsForRef(items[logicalItem].ref))
    ELSE selected

\* The line distance of a file scope declaration: to the encoding line and
\* to the bang line.
FileLineDistance(ref, ln, dist) ==
    IF ref.bangLine # None
    THEN Min(dist, distance(ln, ref.bangLine.beginLine, ref.bangLine.endLine))
    ELSE dist

ScopeLineDistance(i, ln) ==
    IF items[i].subKind = DOCSTRING
    THEN distance(ln, items[i].ref.docstring.beginLine,
                      items[i].ref.docstring.endLine)
    ELSE IF items[i].subKind = SIDE_COMMENT
    THEN distance(ln, items[i].ref.sideComment.beginLine,
                      items[i].ref.sideComment.endLine)
    ELSE IF items[i].subKind = DECLARATION
    THEN IF items[i].kind = "FILE_SCOPE"
         THEN FileLineDistance(items[i].ref, ln,
                  IF items[i].ref.encodingLine # None
                  THEN Min(maxint, distance(ln, items[i].ref.encodingLine.beginLine,
                                                items[i].ref.encodingLine.endLine))
                  ELSE maxint)
         ELSE distance(ln, items[i].ref.body.beginLine, items[i].ref.body.endLine)
    ELSE maxint

\* The line distance of an item that is no scope cell: to the lines of its
\* statement.
CellLineDistance(i, ln) ==
    distance(ln, items[i].ref.body.beginLine, items[i].ref.body.endLine)

getLineDistance(i, ln) ==
    IF scopedItem(i) THEN ScopeLineDistance(i, ln) ELSE CellLineDistance(i, ln)

FileDistance(ref, absPos, dist) ==
    IF ref.bangLine # None
    THEN Min(dist, distance(absPos, ref.bangLine.begin, ref.bangLine.end))
    ELSE dist

ScopeDistance(i, absPos) ==
    IF items[i].subKind = DOCSTRING
    THEN distance(absPos, items[i].ref.docstring.begin, items[i].ref.docstring.end)
    ELSE IF items[i].subKind = SIDE_COMMENT
    THEN distance(absPos, items[i].ref.sideComment.begin,
                          items[i].ref.sideComment.end)
    ELSE IF items[i].subKind = DECLARATION
    THEN IF items[i].kind = "FILE_SCOPE"
         THEN FileDistance(items[i].ref, absPos,
                  IF items[i].ref.encodingLine # None
                  THEN Min(maxint, distance(absPos, items[i].ref.encodingLine.begin,
                                                    items[i].ref.encodingLine.end))
                  ELSE maxint)
         ELSE distance(absPos, items[i].ref.body.begin, items[i].ref.body.end)
    ELSE maxint

\* The position distance of an item that is no scope cell.
CellDistance(i, absPos) ==
    distance(absPos, items[i].ref.body.begin, items[i].ref.body.end)

getDistance(i, absPos) ==
    IF scopedItem(i) THEN ScopeDistance(i, absPos) ELSE CellDistance(i, absPos)

\* The first loop of getNearestItem from item i on: the candidates and
\* their line distance.
RECURSIVE Candidates(_, _, _, _)
\* The first loop keeping the first item found, however far.
CandidateFirstFound(i, ln, candidates, dist, d) ==
    IF d = maxint THEN Candidates(i + 1, ln, candidates, dist)
    ELSE IF candidates = << >> THEN Candidates(i + 1, ln, << i >>, d)
    ELSE Candidates(i + 1, ln, candidates, dist)

Candidate(i, ln, candidates, dist, d) ==
    IF d = maxint THEN Candidates(i + 1, ln, candidates, dist)
    ELSE IF d < dist THEN Candidates(i + 1, ln, << i >>, d)
    ELSE IF d = dist THEN Candidates(i + 1, ln, Append(candidates, i), dist)
    ELSE Candidates(i + 1, ln, candidates, dist)

Candidates(i, ln, candidates, dist) ==
    IF i > Len(items) THEN [candidates |-> candidates, distance |-> dist]
    ELSE IF isProxyItem(i) THEN Candidates(i + 1, ln, candidates, dist)
    ELSE Candidate(i, ln, candidates, dist, getLineDistance(i, ln))

\* An item and a distance, as getNearestItem returns them.
Nearest(logicalItem, dist) ==
    IF logicalItem.raised THEN logicalItem
    ELSE Ok([item |-> logicalItem.value, distance |-> dist])

\* The second loop of getNearestItem from candidate k on.
RECURSIVE ByPosition(_, _, _, _, _)
\* The second loop returning its first candidate.
PositionedFirst(candidates, absPos, k, candidate, dist, d) ==
    Nearest(getLogicalItem(candidates[k]), d)

Positioned(candidates, absPos, k, candidate, dist, d) ==
    IF d = 0 THEN Nearest(getLogicalItem(candidates[k]), 0)
    ELSE IF d < dist
    THEN ByPosition(candidates, absPos, k + 1, candidates[k], d)
    ELSE ByPosition(candidates, absPos, k + 1, candidate, dist)

ByPosition(candidates, absPos, k, candidate, dist) ==
    IF k > Len(candidates) THEN Nearest(getLogicalItem(candidate), dist)
    ELSE Positioned(candidates, absPos, k, candidate, dist,
                    getDistance(candidates[k], absPos))

NearestOf(found, absPos) ==
    IF Len(found.candidates) = 0 THEN Ok([item |-> NoItem, distance |-> maxint])
    ELSE IF Len(found.candidates) = 1
    THEN Nearest(getLogicalItem(found.candidates[1]), found.distance)
    ELSE IF found.distance # 0
    THEN Nearest(getLogicalItem(found.candidates[1]), found.distance)
    ELSE ByPosition(found.candidates, absPos, 1, NoItem, maxint)

getNearestItem(absPos, ln) == NearestOf(Candidates(1, ln, << >>, maxint), absPos)

-----------------------------------------------------------------------------
(* Scenes *)

\* The absolute position of a line and a 1-based column.
AbsPos(ln, column) == (ln - 1) * LineWidth + column - 1

Fragment(beginLine, beginPos, endLine, endPos) ==
    [ begin |-> AbsPos(beginLine, beginPos), end |-> AbsPos(endLine, endPos),
      beginLine |-> beginLine, endLine |-> endLine ]

NoRef ==
    [ id |-> 0, begin |-> 0, end |-> 0, body |-> None, docstring |-> None,
      sideComment |-> None, leadingComment |-> None, suite |-> << >>,
      value |-> None, message |-> None, test |-> None,
      encodingLine |-> None, bangLine |-> None ]

Optional(present, fragment) == IF present THEN fragment ELSE None

Cell(kind, subKind, canvas, column, row, ref) ==
    [ kind |-> kind, subKind |-> subKind, scoped |-> TRUE, proxy |-> FALSE,
      proxied |-> None, canvas |-> canvas, addr |-> << column, row >>,
      ref |-> ref ]

Item(kind, canvas, column, row, ref) ==
    [ kind |-> kind, subKind |-> UNKNOWN, scoped |-> FALSE, proxy |-> FALSE,
      proxied |-> None, canvas |-> canvas, addr |-> << column, row >>,
      ref |-> ref ]

ProxyItem(kind, proxied) ==
    [ kind |-> kind, subKind |-> UNKNOWN, scoped |-> FALSE, proxy |-> TRUE,
      proxied |-> proxied, canvas |-> 0, addr |-> << 0, 0 >>, ref |-> NoRef ]

\* The cells of a scope on its canvas: the corner, the edges, the
\* declaration and, when the fragment has them, the side comment and the
\* docstring; the body of the scope has bodyRows rows.
ScopeCells(kind, canvas, ref, bodyRows) ==
    << Cell(kind, TOP_LEFT, canvas, 0, 0, ref),
       Cell(kind, TOP, canvas, 1, 0, ref),
       Cell(kind, LEFT, canvas, 0, 1, ref),
       Cell(kind, DECLARATION, canvas, 1, 1, ref) >>
    \o (IF ref.sideComment # None
        THEN << Cell(kind, SIDE_COMMENT, canvas, 2, 1, ref) >> ELSE << >>)
    \o (IF ref.docstring # None
        THEN << Cell(kind, LEFT, canvas, 0, 2, ref),
                Cell(kind, DOCSTRING, canvas, 1, 2, ref) >> ELSE << >>)
    \o << Cell(kind, BOTTOM_LEFT, canvas, 0, 3 + bodyRows, ref),
          Cell(kind, BOTTOM, canvas, 1, 3 + bodyRows, ref) >>

\* The fragments of the buffer
\*     1  #!bang              (when bang)
\*     2  """doc"""           (when fileDoc)
\*     3  <A>:  # c           (a for or a def; the comment when sideA)
\*     4      """d"""         (when docA, in a def)
\*     5      code
\*     6  for:
\*     7      return v
CodeRef == [NoRef EXCEPT !.id = 3, !.body = Fragment(5, 5, 5, 8),
                         !.begin = AbsPos(5, 5), !.end = AbsPos(5, 8)]

ReturnRef == [NoRef EXCEPT !.id = 5, !.body = Fragment(7, 5, 7, 10),
                           !.value = Fragment(7, 12, 7, 12),
                           !.begin = AbsPos(7, 5), !.end = AbsPos(7, 12)]

FileRef(fileDoc, bang) ==
    [NoRef EXCEPT !.id = 1, !.body = Fragment(3, 1, 7, 12),
                  !.docstring = Optional(fileDoc, Fragment(2, 1, 2, 9)),
                  !.bangLine = Optional(bang, Fragment(1, 1, 1, 6)),
                  !.begin = AbsPos(1, 1), !.end = AbsPos(7, 12)]

FirstRef(sideA, docA) ==
    [NoRef EXCEPT !.id = 2, !.body = Fragment(3, 1, 3, 4),
                  !.sideComment = Optional(sideA, Fragment(3, 7, 3, 9)),
                  !.docstring = Optional(docA, Fragment(4, 5, 4, 11)),
                  !.suite = << CodeRef >>,
                  !.begin = AbsPos(3, 1), !.end = AbsPos(5, 8)]

SecondRef ==
    [NoRef EXCEPT !.id = 4, !.body = Fragment(6, 1, 6, 4),
                  !.suite = << ReturnRef >>,
                  !.begin = AbsPos(6, 1), !.end = AbsPos(7, 12)]

Scene(kindA, sideA, docA, fileDoc, bang) ==
    << ProxyItem("BADGE", [canvas |-> 2, addr |-> << 0, 0 >>]),
       ProxyItem("CONNECTOR", None) >>
    \o ScopeCells("FILE_SCOPE", 1, FileRef(fileDoc, bang), 2)
    \o ScopeCells(kindA, 2, FirstRef(sideA, docA), 1)
    \o << Item("CODE_BLOCK", 2, 1, 3, CodeRef) >>
    \o ScopeCells("FOR_SCOPE", 3, SecondRef, 1)
    \o << Item("RETURN", 3, 1, 3, ReturnRef) >>

Scenes ==
    { Scene(kindA, sideA, docA /\ kindA = "FUNC_SCOPE", fileDoc, bang) :
          kindA \in {"FOR_SCOPE", "FUNC_SCOPE"}, sideA \in BOOLEAN,
          docA \in BOOLEAN, fileDoc \in BOOLEAN, bang \in BOOLEAN }

\* The button and the modifiers of a mouse event: the modifiers matter to
\* the left button only.
Events ==
    { << "MidButton", "NoModifier" >>, << "RightButton", "NoModifier" >> }
    \cup { << "LeftButton", modifiers >> :
               modifiers \in {"NoModifier", "ControlModifier", "ShiftModifier",
                              "AltModifier"} }

\* The scenes of the selection: the bang line plays no part in it.
SelectionScenes ==
    { Scene(kindA, sideA, docA /\ kindA = "FUNC_SCOPE", fileDoc, FALSE) :
          kindA \in {"FOR_SCOPE", "FUNC_SCOPE"}, sideA \in BOOLEAN,
          docA \in BOOLEAN, fileDoc \in BOOLEAN }

\* The columns of a line a query names.
Columns == {1, 5, 8, LineWidth}

-----------------------------------------------------------------------------
(* The calls of the mouse mixin *)

\* mousePressEvent on the item at the position of the event; NoItem when
\* the event is out of the items.
MousePressEvent ==
    \E item \in {NoItem} \cup DOMAIN items, event \in Events :
        /\ ~getLogicalItem(item).raised
        /\ selected' = Pressed(getLogicalItem(item).value, event[1], event[2])
        /\ op' = "mousePressEvent"
        /\ mouseCall' = None
        /\ mouseResult' = None
        /\ UNCHANGED << items, exceptMouse >>

\* The items a mouse event can stand for.
LogicalItems ==
    { getLogicalItem(item).value :
          item \in { i \in DOMAIN items : ~getLogicalItem(i).raised } }
    \ {NoItem}

AddToSelection ==
    \E item \in LogicalItems :
        /\ selected' = addToSelection(selected, item)
        /\ op' = "addToSelection"
        /\ mouseCall' = [item |-> item]
        /\ mouseResult' = None
        /\ UNCHANGED << items, exceptMouse >>

IsNestedInSelected ==
    \E item \in LogicalItems :
        /\ op' = "isNestedInSelected"
        /\ mouseCall' = [item |-> item]
        /\ mouseResult' = [value |-> isNestedInSelected(selected, item)]
        /\ UNCHANGED << items, selected, exceptMouse >>

GetLogicalItem ==
    \E item \in {NoItem} \cup DOMAIN items :
        /\ op' = "getLogicalItem"
        /\ mouseCall' = [item |-> item]
        /\ mouseResult' = getLogicalItem(item)
        /\ UNCHANGED << items, selected, exceptMouse >>

GetNearestItem ==
    \E ln \in 1..MaxSceneLine, column \in Columns :
        /\ op' = "getNearestItem"
        /\ mouseCall' = [absPos |-> AbsPos(ln, column), line |-> ln,
                         pos |-> column]
        /\ mouseResult' = getNearestItem(AbsPos(ln, column), ln)
        /\ UNCHANGED << items, selected, exceptMouse >>

InitScene ==
    /\ IdleCtx
    /\ IdleCML
    /\ IdleColor
    /\ IdleGen
    /\ IdleLayout
    /\ IdleCalls
    /\ IdleTabs
    /\ IdleZoom
    /\ op = "init"
    /\ selected = {}
    /\ mouseCall = None
    /\ mouseResult = None

InitMouse == InitScene /\ items \in SelectionScenes

NextMouse ==
    \/ MousePressEvent
    \/ AddToSelection
    \/ IsNestedInSelected

SpecMouse == InitMouse /\ [][NextMouse]_vars

InitNearest == InitScene /\ items \in Scenes

NextNearest ==
    \/ GetLogicalItem
    \/ GetNearestItem

SpecNearest == InitNearest /\ [][NextNearest]_vars

-----------------------------------------------------------------------------
(* The scene: claims *)

\* The item a proxy item stands for, read from the scene.
ProxiedOf(i) ==
    IF items[i].proxied = None THEN NoItem
    ELSE CHOOSE j \in DOMAIN items :
             /\ ~items[j].proxy
             /\ items[j].canvas = items[i].proxied.canvas
             /\ items[j].addr = items[i].proxied.addr

\* j is the top left cell of the scope that cell i belongs to.
IsTopLeftOf(j, i) ==
    /\ j # NoItem
    /\ items[j].scoped
    /\ items[j].subKind = TOP_LEFT
    /\ items[j].canvas = items[i].canvas
    /\ items[j].ref = items[i].ref

\* What the claim expects of the logical item of i.
LogicalItemOf(i, logicalItem) ==
    IF i = NoItem THEN logicalItem = NoItem
    ELSE IF items[i].proxy THEN logicalItem = ProxiedOf(i)
    ELSE IF ~items[i].scoped THEN logicalItem = i
    ELSE IF items[i].subKind = DECLARATION THEN IsTopLeftOf(logicalItem, i)
    ELSE IF items[i].subKind \in {SIDE_COMMENT, DOCSTRING} THEN logicalItem = i
    ELSE logicalItem = NoItem

\* C13: getLogicalItem maps none to none, a proxy item to its proxied item,
\* a non-scope item to itself, a scope Declaration cell to the TopLeft cell
\* of its scope, SideComment and Docstring cells to themselves and every
\* other scope cell to none.
C13_LogicalItem ==
    op = "getLogicalItem" =>
        /\ ~mouseResult.raised
        /\ LogicalItemOf(mouseCall.item, mouseResult.value)

\* The logical item of a declaration cell was asked for.
W13_DeclarationToTopLeft ==
    /\ op = "getLogicalItem"
    /\ mouseCall.item # NoItem
    /\ items[mouseCall.item].subKind = DECLARATION
    /\ items[mouseCall.item].kind = "FUNC_SCOPE"
    /\ ~mouseResult.raised
    /\ mouseResult.value # NoItem

\* The selected top left cells of scopes whose range holds the range of x.
SelectedScopesAround(x) ==
    { s \in selected :
          /\ items[s].scoped
          /\ items[s].subKind = TOP_LEFT
          /\ Within(getItemVisualBeginEnd(x), getItemVisualBeginEnd(s)) }

\* isNestedInSelected answers true for an item within another selected
\* scope and false for an item within no selected scope.
NestedAnswer ==
    op = "isNestedInSelected" =>
        /\ (SelectedScopesAround(mouseCall.item) \ {mouseCall.item} # {}
               => mouseResult.value)
        /\ (SelectedScopesAround(mouseCall.item) = {} => ~mouseResult.value)

\* addToSelection of an item within another selected scope changes nothing.
NestedIgnored ==
    (/\ op' = "addToSelection"
     /\ SelectedScopesAround(mouseCall'.item) \ {mouseCall'.item} # {})
        => selected' = selected

\* C14: for a selected TopLeft cell S and another item X whose range lies
\* within the range of S, isNestedInSelected(X) is true and
\* addToSelection(X) leaves the selection unchanged; when no selected
\* TopLeft cell contains the range of X, isNestedInSelected(X) is false.
C14_NestedInSelected == [] NestedAnswer /\ [][NestedIgnored]_vars

\* An item within a selected scope was offered to the selection, and the
\* selection holds the scope alone.
W14_NestedOffered ==
    /\ op = "addToSelection"
    /\ ~items[mouseCall.item].scoped
    /\ SelectedScopesAround(mouseCall.item) # {}
    /\ mouseCall.item \notin selected

\* The items getNearestItem considers.
NonProxy == { i \in DOMAIN items : ~items[i].proxy }

\* Those with a finite distance to the line.
Finite(ln) == { i \in NonProxy : getLineDistance(i, ln) # maxint }

Least(numbers) == CHOOSE d \in numbers : \A e \in numbers : d <= e

LeastLineDistance(ln) == Least({ getLineDistance(i, ln) : i \in Finite(ln) })

\* The items at the least line distance.
Closest(ln) == { i \in Finite(ln) : getLineDistance(i, ln) = LeastLineDistance(ln) }

LeastDistance(candidates, absPos) ==
    Least({ getDistance(i, absPos) : i \in candidates })

\* Several items hold the line.
ZeroTie(ln) ==
    /\ Finite(ln) # {}
    /\ LeastLineDistance(ln) = 0
    /\ Cardinality(Closest(ln)) > 1

\* The item returned is the logical item of an item at the least line
\* distance; none and the maximum distance when no item has a finite one.
NearestIsClosest ==
    /\ ~mouseResult.raised
    /\ IF Finite(mouseCall.line) = {}
       THEN mouseResult.value = [item |-> NoItem, distance |-> maxint]
       ELSE \E i \in Closest(mouseCall.line) :
                mouseResult.value.item = getLogicalItem(i).value

\* C15: getNearestItem returns the logical item of a non-proxy item whose
\* line distance is the least of the finite line distances, together with
\* that distance; none and the maximum distance when no item has a finite
\* line distance.
C15_NearestByLine ==
    op = "getNearestItem" =>
        /\ NearestIsClosest
        /\ Finite(mouseCall.line) # {} =>
               mouseResult.value.distance = LeastLineDistance(mouseCall.line)

\* C15 amended: the distance returned is the least line distance unless
\* several items hold the line; it is then the least position distance of
\* these items.
C15_NearestByLineOrPosition ==
    op = "getNearestItem" =>
        /\ NearestIsClosest
        /\ Finite(mouseCall.line) # {} =>
               mouseResult.value.distance =
                   IF ZeroTie(mouseCall.line)
                   THEN LeastDistance(Closest(mouseCall.line), mouseCall.absPos)
                   ELSE LeastLineDistance(mouseCall.line)

\* The nearest item is some lines away from the line asked for.
W15_NearestIsLinesAway ==
    /\ op = "getNearestItem"
    /\ ~mouseResult.raised
    /\ mouseResult.value.item # NoItem
    /\ mouseResult.value.distance = 1
    /\ ~ZeroTie(mouseCall.line)

\* C16: when several candidates have line distance 0 a candidate at the
\* least position distance is returned with that distance: a candidate
\* holding the position, with distance 0, when there is one.
C16_ZeroTieByPosition ==
    (op = "getNearestItem" /\ ZeroTie(mouseCall.line)) =>
        /\ ~mouseResult.raised
        /\ \E i \in Closest(mouseCall.line) :
               /\ getDistance(i, mouseCall.absPos) =
                      LeastDistance(Closest(mouseCall.line), mouseCall.absPos)
               /\ mouseResult.value.item = getLogicalItem(i).value
               /\ mouseResult.value.distance = getDistance(i, mouseCall.absPos)

\* Two items hold the line and the second of them holds the position.
W16_SecondCandidateHoldsPosition ==
    /\ op = "getNearestItem"
    /\ ZeroTie(mouseCall.line)
    /\ ~mouseResult.raised
    /\ mouseResult.value.distance = 0
    /\ items[mouseResult.value.item].subKind = SIDE_COMMENT

-----------------------------------------------------------------------------
(* The layout of the scope cells of a canvas *)
(*                                                                         *)
(* A scope cell is a record                                                *)
(*   kind, subKind    : the CellElement kind and the sub kind              *)
(*   addr             : << column, row >> on the canvas                    *)
(*   headerRect       : the bounding rectangle of the header text          *)
(*   hasSideComment   : hasattr( ref, "sideComment" )                      *)
(*   sideCommentRect  : the bounding rectangle of the side comment, None   *)
(*                      when ref.sideComment is None                       *)
(*   docstringRect    : the bounding rectangle of the docstring            *)
(*   badgeItem        : _badgeItem, None until render creates it           *)
(*   measured         : [minWidth, minHeight], None until measured         *)
(*   size             : [width, height], None until measured               *)
(*   base             : [baseX, baseY], None until placed                  *)
(*   rect, connector, scene, hover : what _draw leaves on the item         *)
(* The labels of CML comments are items of their own and not modelled.     *)

\* The widest header text.
MaxTextWidth == 3

max(a, b) == IF a > b THEN a ELSE b

SubKinds == { UNKNOWN, TOP_LEFT, LEFT, BOTTOM_LEFT, DECLARATION, SIDE_COMMENT,
              DOCSTRING, TOP, BOTTOM }

Measured(minWidth, minHeight) ==
    Ok([minWidth |-> minWidth, minHeight |-> minHeight])

\* A declaration whose width grows with the free room of the badge.
DeclarationWidthOfFreeRoom(w, badgeItem, s) ==
    IF badgeItem = None THEN w + s.hHeaderPadding - s.rectRadius
    ELSE max(w, badgeItem.width) - w + s.hHeaderPadding - s.rectRadius

\* The width of a declaration before the side comment is looked at.
DeclarationWidth(w, badgeItem, s) ==
    IF badgeItem = None THEN w + s.hHeaderPadding - s.rectRadius
    ELSE IF badgeItem.withinHeader
    THEN badgeItem.width + s.hHeaderPadding - s.rectRadius
    ELSE max(w, badgeItem.width) + s.hHeaderPadding - s.rectRadius

RenderedDeclaration(cell, badgeItem, s) ==
    IF cell.hasSideComment
    THEN IF cell.sideCommentRect # None
         THEN Measured(DeclarationWidth(cell.headerRect.width, badgeItem, s)
                           + s.hCellPadding,
                       cell.headerRect.height + 2 * s.vHeaderPadding
                           - s.rectRadius + 2 * s.vTextPadding)
         ELSE Measured(DeclarationWidth(cell.headerRect.width, badgeItem, s)
                           + s.hHeaderPadding,
                       cell.headerRect.height + 2 * s.vHeaderPadding
                           - s.rectRadius + s.vTextPadding)
    ELSE Measured(DeclarationWidth(cell.headerRect.width, badgeItem, s)
                      + s.hHeaderPadding,
                  cell.headerRect.height + 2 * s.vHeaderPadding - s.rectRadius)

\* A cell of an unknown sub kind measured as an empty cell.
EmptyScopeElement(cell) == Measured(0, 0)

UnknownScopeElement(cell) ==
    IF cell.subKind = UNKNOWN
    THEN Raise(<< "Unknown scope element" >>)
    ELSE Raise(<< "Unrecognized scope element: ", cell.subKind >>)

\* _render: the minimal width and height of the cell; badgeItem is the
\* badge of the cell one column to the left and one row up.
ScopeCellElement_render(cell, badgeItem, s) ==
    IF cell.subKind = TOP_LEFT
    THEN Measured(s.rectRadius + s.hCellPadding, s.rectRadius + s.vCellPadding)
    ELSE IF cell.subKind = LEFT
    THEN Measured(s.rectRadius + s.hCellPadding, 0)
    ELSE IF cell.subKind = BOTTOM_LEFT
    THEN Measured(s.rectRadius + s.hCellPadding, s.rectRadius + s.vCellPadding)
    ELSE IF cell.subKind = TOP
    THEN Measured(0, s.rectRadius + s.vCellPadding)
    ELSE IF cell.subKind = BOTTOM
    THEN Measured(0, s.rectRadius + s.vCellPadding)
    ELSE IF cell.subKind = DECLARATION
    THEN RenderedDeclaration(cell, badgeItem, s)
    ELSE IF cell.subKind = SIDE_COMMENT
    THEN Measured(s.hCellPadding + s.hTextPadding + cell.sideCommentRect.width
                      + s.hTextPadding + s.hHeaderPadding - s.rectRadius,
                  cell.sideCommentRect.height
                      + 2 * (s.vHeaderPadding + s.vTextPadding) - s.rectRadius)
    ELSE IF cell.subKind = DOCSTRING
    THEN Measured(cell.docstringRect.width
                      + 2 * (s.hHeaderPadding - s.rectRadius),
                  cell.docstringRect.height + 2 * s.vHeaderPadding)
    ELSE UnknownScopeElement(cell)

\* The cell with its measures.
Sized(cell, measured) ==
    IF measured.raised THEN measured
    ELSE Ok([cell EXCEPT !.measured = measured.value,
                         !.size = [width |-> measured.value.minWidth,
                                   height |-> measured.value.minHeight]])

\* render of a scope cell: the cell as render leaves it, or the exception.
\* badge is the badge render creates for a top left cell.
render(cell, badgeItem, badge, s) ==
    IF cell.subKind = TOP_LEFT
    THEN Sized([cell EXCEPT !.badgeItem = badge],
               ScopeCellElement_render(cell, badgeItem, s))
    ELSE Sized(cell, ScopeCellElement_render(cell, badgeItem, s))

\* __needConnector
RECURSIVE AfterTryFrom(_, _, _)
\* The loop "while row >= 0" of __afterTry over the cells of the parent
\* canvas, a list of rows; a row that has no cell in the column raises,
\* which returns False.
AfterTryFrom(parentCells, row, column) ==
    IF row < 0 THEN FALSE
    ELSE IF column + 1 > Len(parentCells[row + 1]) THEN FALSE
    ELSE IF parentCells[row + 1][column + 1].kind = "CONNECTOR"
         THEN AfterTryFrom(parentCells, row - 1, column)
    ELSE IF parentCells[row + 1][column + 1].kind = "VCANVAS"
         THEN parentCells[row + 1][column + 1].scope = "TRY_SCOPE"
    ELSE FALSE

\* __afterTry of a cell of the canvas cv, which lies at cv.addr in the
\* canvas cv.canvas.
afterTry(cv) == AfterTryFrom(cv.canvas.cells, cv.addr[2] - 1, cv.addr[1])

\* An else scope that follows any nested canvas has a connector.
needConnectorAfterAnyScope(cell, cv) ==
    IF cell.kind \in { "FOR_SCOPE", "DECOR_SCOPE", "WHILE_SCOPE", "FUNC_SCOPE",
                       "CLASS_SCOPE", "WITH_SCOPE", "FINALLY_SCOPE",
                       "TRY_SCOPE" }
    THEN TRUE
    ELSE cell.kind = "ELSE_SCOPE" /\ cv.addr[2] > 0

\* None, which __needConnector returns for the other kinds, counts as False.
needConnector(cell, cv) ==
    IF cell.kind \in { "FOR_SCOPE", "DECOR_SCOPE", "WHILE_SCOPE", "FUNC_SCOPE",
                       "CLASS_SCOPE", "WITH_SCOPE", "FINALLY_SCOPE",
                       "TRY_SCOPE" }
    THEN TRUE
    ELSE IF cell.kind = "ELSE_SCOPE" THEN afterTry(cv)
    ELSE FALSE

Rect(x, y, width, height) == [x |-> x, y |-> y, width |-> width, height |-> height]

\* The place of the badge of a top left cell; headerHeight is the height of
\* the cell below.
MovedBadge(badgeItem, baseX, baseY, headerHeight, s) ==
    IF badgeItem = None THEN None
    ELSE IF badgeItem.withinHeader
    THEN [badgeItem EXCEPT
              !.x = baseX + s.hCellPadding + s.rectRadius,
              !.y = baseY + s.vCellPadding
                        + (headerHeight + s.rectRadius) \div 2
                        - badgeItem.height \div 2]
    ELSE [badgeItem EXCEPT
              !.x = baseX + s.hCellPadding + s.rectRadius,
              !.y = baseY + s.vCellPadding - badgeItem.height \div 2]

\* _draw: the cell as _draw leaves it; cv is the canvas of the cell.
ScopeCellElement_draw(cell, cv, headerHeight, baseX, baseY) ==
    IF cell.subKind = TOP_LEFT
    THEN [cell EXCEPT
              !.scene = TRUE,
              !.connector =
                  IF needConnector(cell, cv) /\ cell.connector = None
                  THEN [x1 |-> baseX + cv.settings.mainLine, y1 |-> baseY,
                        x2 |-> baseX + cv.settings.mainLine,
                        y2 |-> baseY + cv.height]
                  ELSE cell.connector,
              !.rect = Rect(baseX + cv.settings.hCellPadding
                                - (cv.settings.selectPenWidth - 1),
                            baseY + cv.settings.vCellPadding
                                - (cv.settings.selectPenWidth - 1),
                            cv.minWidth - 2 * cv.settings.hCellPadding
                                + 2 * (cv.settings.selectPenWidth - 1),
                            cv.minHeight - 2 * cv.settings.vCellPadding
                                + 2 * (cv.settings.selectPenWidth - 1)),
              !.badgeItem = MovedBadge(cell.badgeItem, baseX, baseY,
                                       headerHeight, cv.settings),
              !.hover = cv.navigationToolbar]
    ELSE IF cell.subKind = DECLARATION
    THEN [cell EXCEPT
              !.scene = TRUE,
              !.rect = Rect(baseX - cv.settings.rectRadius
                                - (cv.settings.selectPenWidth - 1),
                            baseY - cv.settings.rectRadius
                                - (cv.settings.selectPenWidth - 1),
                            cv.minWidth - 2 * cv.settings.hCellPadding
                                + 2 * (cv.settings.selectPenWidth - 1),
                            cell.size.height + cv.settings.rectRadius
                                + (cv.settings.selectPenWidth - 1))]
    ELSE IF cell.subKind = SIDE_COMMENT
    THEN [cell EXCEPT
              !.scene = TRUE,
              !.rect = Rect(cv.baseX + cv.minWidth - cell.size.width
                                - cv.settings.rectRadius
                                - cv.settings.vHeaderPadding
                                + cv.settings.hHeaderPadding
                                - (cv.settings.selectPenWidth - 1),
                            baseY - cv.settings.rectRadius
                                + cv.settings.vHeaderPadding
                                - (cv.settings.selectPenWidth - 1),
                            cell.sideCommentRect.width
                                + 2 * cv.settings.hTextPadding
                                + 2 * (cv.settings.selectPenWidth - 1),
                            cell.sideCommentRect.height
                                + 2 * cv.settings.vTextPadding
                                + 2 * (cv.settings.selectPenWidth - 1))]
    ELSE IF cell.subKind = DOCSTRING
    THEN [cell EXCEPT
              !.scene = TRUE,
              !.rect = Rect(baseX - cv.settings.rectRadius
                                - (cv.settings.selectPenWidth - 1),
                            baseY - (cv.settings.selectPenWidth - 1),
                            cv.minWidth - 2 * cv.settings.hCellPadding
                                + 2 * (cv.settings.selectPenWidth - 1),
                            cell.size.height
                                + 2 * (cv.settings.selectPenWidth - 1))]
    ELSE cell

\* draw that gives the cell the width of its canvas.
drawStretching(cell, cv, headerHeight, baseX, baseY) ==
    ScopeCellElement_draw([cell EXCEPT
                               !.base = [baseX |-> baseX, baseY |-> baseY],
                               !.measured.minWidth = cv.minWidth],
                          cv, headerHeight, baseX, baseY)

\* draw of a scope cell.
draw(cell, cv, headerHeight, baseX, baseY) ==
    ScopeCellElement_draw([cell EXCEPT !.base = [baseX |-> baseX, baseY |-> baseY]],
                          cv, headerHeight, baseX, baseY)

-----------------------------------------------------------------------------
(* The canvas and its two passes *)

\* The settings of the diagram.
Settings ==
    { [ rectRadius |-> 6, hCellPadding |-> 8, vCellPadding |-> 8,
        hHeaderPadding |-> 5, vHeaderPadding |-> 5, hTextPadding |-> 5,
        vTextPadding |-> 5, mainLine |-> 25, selectPenWidth |-> 3 ],
      [ rectRadius |-> 2, hCellPadding |-> 1, vCellPadding |-> 1,
        hHeaderPadding |-> 3, vHeaderPadding |-> 1, hTextPadding |-> 0,
        vTextPadding |-> 0, mainLine |-> 4, selectPenWidth |-> 1 ] }

\* The badge render creates for the top left cell: it lies within the
\* header or on the border of the scope.
Badges ==
    { [width |-> 2, height |-> 1, withinHeader |-> within, x |-> 0, y |-> 0] :
          within \in BOOLEAN }

TextRect(width) == [width |-> width, height |-> 1]

NewCell(subKind, column, row, width, hasSideComment, sideComment, docstring) ==
    [ kind |-> "FUNC_SCOPE", subKind |-> subKind, addr |-> << column, row >>,
      headerRect |-> TextRect(width), hasSideComment |-> hasSideComment,
      sideCommentRect |-> sideComment, docstringRect |-> docstring,
      badgeItem |-> None, measured |-> None, size |-> None, base |-> None,
      rect |-> None, connector |-> None, scene |-> FALSE, hover |-> FALSE ]

\* The cells of a function scope, row by row.
NewCells(width, hasSideComment, sideComment, docstring) ==
    << NewCell(TOP_LEFT, 0, 0, width, hasSideComment, sideComment, docstring),
       NewCell(TOP, 1, 0, width, hasSideComment, sideComment, docstring),
       NewCell(LEFT, 0, 1, width, hasSideComment, sideComment, docstring),
       NewCell(DECLARATION, 1, 1, width, hasSideComment, sideComment, docstring) >>
    \o (IF sideComment # None
        THEN << NewCell(SIDE_COMMENT, 2, 1, width, hasSideComment, sideComment,
                        docstring) >>
        ELSE << >>)
    \o (IF docstring # None
        THEN << NewCell(LEFT, 0, 2, width, hasSideComment, sideComment, docstring),
                NewCell(DOCSTRING, 1, 2, width, hasSideComment, sideComment,
                        docstring) >>
        ELSE << >>)
    \o << NewCell(BOTTOM_LEFT, 0, 3, width, hasSideComment, sideComment, docstring),
          NewCell(BOTTOM, 1, 3, width, hasSideComment, sideComment, docstring) >>

\* The cells with the sub kind of cell k replaced; k = 0 leaves them.
WithSubKind(scope, k, subKind) ==
    IF k = 0 THEN scope ELSE [scope EXCEPT ![k].subKind = subKind]

\* The index of the cell at column, row; 0 when the canvas has none there.
IndexAt(column, row) ==
    IF \E k \in DOMAIN cells : cells[k].addr = << column, row >>
    THEN CHOOSE k \in DOMAIN cells : cells[k].addr = << column, row >>
    ELSE 0

\* canvas.cells[ addr[ 1 ] - 1 ][ addr[ 0 ] - 1 ]._badgeItem
BadgeAbove(k) ==
    IF IndexAt(cells[k].addr[1] - 1, cells[k].addr[2] - 1) = 0 THEN None
    ELSE cells[IndexAt(cells[k].addr[1] - 1, cells[k].addr[2] - 1)].badgeItem

\* canvas.cells[ addr[ 1 ] + 1 ][ addr[ 0 ] ].height
HeightBelow(k) ==
    IF IndexAt(cells[k].addr[1], cells[k].addr[2] + 1) = 0 THEN 0
    ELSE cells[IndexAt(cells[k].addr[1], cells[k].addr[2] + 1)].size.height

Rows == { cells[k].addr[2] : k \in DOMAIN cells }

RECURSIVE Sum(_, _)
Sum(f, S) ==
    IF S = {} THEN 0
    ELSE f[CHOOSE x \in S : TRUE] + Sum(f, S \ {CHOOSE x \in S : TRUE})

Greatest(numbers) == CHOOSE d \in numbers : \A e \in numbers : d >= e

RowOf(row) == { k \in DOMAIN cells : cells[k].addr[2] = row }

RowHeight(row) == Greatest({ cells[k].measured.minHeight : k \in RowOf(row) })

RowWidth(row) == Sum([k \in RowOf(row) |-> cells[k].measured.minWidth], RowOf(row))

\* The base of cell k: the widths of the cells to its left and the heights
\* of the rows above it, from the base of the canvas.
BaseX(k) ==
    vcanvas.baseX
    + Sum([j \in RowOf(cells[k].addr[2]) |-> cells[j].size.width],
          { j \in RowOf(cells[k].addr[2]) : cells[j].addr[1] < cells[k].addr[1] })

BaseY(k) ==
    vcanvas.baseY
    + Sum([row \in Rows |-> RowHeight(row)],
          { row \in Rows : row < cells[k].addr[2] })

\* The measure pass renders the next cell of the canvas; an exception ends
\* the layout.
Render ==
    /\ layout.pass = "render"
    /\ layout.next <= Len(cells)
    /\ IF render(cells[layout.next], BadgeAbove(layout.next), vcanvas.badge,
                 vcanvas.settings).raised
       THEN /\ layout' = [layout EXCEPT
                              !.pass = "failed",
                              !.error = render(cells[layout.next],
                                               BadgeAbove(layout.next),
                                               vcanvas.badge,
                                               vcanvas.settings).message]
            /\ UNCHANGED cells
       ELSE /\ cells' = [cells EXCEPT
                             ![layout.next] =
                                 render(cells[layout.next],
                                        BadgeAbove(layout.next), vcanvas.badge,
                                        vcanvas.settings).value]
            /\ layout' = [layout EXCEPT !.next = layout.next + 1]
    /\ op' = "render"
    /\ UNCHANGED << vcanvas, exceptLayout >>

\* The measure pass ends: the canvas takes its measures of its rows and
\* every cell the height of its row.
RenderCanvas ==
    /\ layout.pass = "render"
    /\ layout.next > Len(cells)
    /\ vcanvas' = [vcanvas EXCEPT
                       !.minWidth = Greatest({ RowWidth(row) : row \in Rows }),
                       !.minHeight = Sum([row \in Rows |-> RowHeight(row)], Rows),
                       !.width = Greatest({ RowWidth(row) : row \in Rows }),
                       !.height = Sum([row \in Rows |-> RowHeight(row)], Rows)]
    /\ cells' = [k \in DOMAIN cells |->
                     [cells[k] EXCEPT !.size.height = RowHeight(cells[k].addr[2])]]
    /\ layout' = [layout EXCEPT !.pass = "draw", !.next = 1]
    /\ op' = "render"
    /\ UNCHANGED exceptLayout

\* The place pass draws the next cell of the canvas.
Draw ==
    /\ layout.pass = "draw"
    /\ layout.next <= Len(cells)
    /\ cells' = [cells EXCEPT
                     ![layout.next] =
                         draw(cells[layout.next], vcanvas,
                              HeightBelow(layout.next), BaseX(layout.next),
                              BaseY(layout.next))]
    /\ vcanvas' = IF cells[layout.next].subKind = TOP_LEFT
                  THEN [vcanvas EXCEPT !.scopeRectangle = layout.next]
                  ELSE vcanvas
    /\ layout' = [layout EXCEPT
                      !.next = layout.next + 1,
                      !.pass = IF layout.next = Len(cells) THEN "done" ELSE "draw"]
    /\ op' = "draw"
    /\ UNCHANGED exceptLayout

NewCanvas(settings, badge, base, navigationToolbar) ==
    [ settings |-> settings, badge |-> badge, baseX |-> base[1],
      baseY |-> base[2], navigationToolbar |-> navigationToolbar,
      minWidth |-> 0, minHeight |-> 0, width |-> 0, height |-> 0,
      scopeRectangle |-> 0, addr |-> << 0, 0 >>, canvas |-> None ]

InitLayout ==
    /\ IdleCtx
    /\ IdleCML
    /\ IdleColor
    /\ IdleGen
    /\ IdleMouse
    /\ IdleCalls
    /\ IdleTabs
    /\ IdleZoom
    /\ op = "init"
    /\ \E width \in 0..MaxTextWidth, hasSideComment \in BOOLEAN,
          sideComment \in {None, TextRect(2)}, docstring \in {None, TextRect(3)},
          k \in {0, 2, 4}, subKind \in {UNKNOWN, BOTTOM + 1} :
           /\ sideComment # None => hasSideComment
           /\ cells = WithSubKind(NewCells(width, hasSideComment, sideComment,
                                           docstring), k, subKind)
    /\ vcanvas \in { NewCanvas(settings, badge, base, navigationToolbar) :
                        settings \in Settings, badge \in Badges,
                        base \in { << 0, 0 >>, << 10, 20 >> },
                        navigationToolbar \in BOOLEAN }
    /\ layout = [pass |-> "render", next |-> 1, error |-> None]

NextLayout ==
    \/ Render
    \/ RenderCanvas
    \/ Draw

SpecLayout == InitLayout /\ [][NextLayout]_vars

-----------------------------------------------------------------------------
(* The layout: claims *)

\* The measured declaration cells.
MeasuredDeclarations ==
    { k \in DOMAIN cells :
          cells[k].subKind = DECLARATION /\ cells[k].measured # None }

\* The minimal width of cell k were its header text of the given width.
MinWidthWith(k, width) ==
    ScopeCellElement_render([cells[k] EXCEPT !.headerRect.width = width],
                            BadgeAbove(k), vcanvas.settings).value.minWidth

\* C17: with the settings, the badge and the side comment fixed, a wider
\* header text never gives a declaration cell a smaller minWidth.
C17_MeasureMonotonic ==
    \A k \in MeasuredDeclarations :
        \A width \in cells[k].headerRect.width..(MaxTextWidth + 1) :
            MinWidthWith(k, width) >= cells[k].measured.minWidth

\* A declaration measured with a badge on the border of the scope: a wider
\* text makes it wider.
W17_WiderTextWiderCell ==
    \E k \in MeasuredDeclarations :
        /\ BadgeAbove(k) # None
        /\ ~BadgeAbove(k).withinHeader
        /\ cells[k].sideCommentRect # None
        /\ MinWidthWith(k, MaxTextWidth + 1) > cells[k].measured.minWidth

\* The cells whose sub kind is unknown or not recognized.
Malformed == { k \in DOMAIN cells : cells[k].subKind \notin SubKinds \ {UNKNOWN} }

\* A malformed cell has no size and no position, and the layout does not
\* get past it.
MalformedUnsized ==
    \A k \in Malformed :
        /\ cells[k].measured = None
        /\ cells[k].size = None
        /\ cells[k].base = None
        /\ layout.next <= k
        /\ layout.pass \in {"render", "failed"}

\* The layout of a malformed cell ends the layout with the error.
MalformedRaises ==
    (layout.pass = "render" /\ layout.next \in Malformed) =>
        /\ layout'.pass = "failed"
        /\ layout'.error =
               IF cells[layout.next].subKind = UNKNOWN
               THEN << "Unknown scope element" >>
               ELSE << "Unrecognized scope element: ", cells[layout.next].subKind >>

\* C18: the layout of a scope cell with an unknown or unrecognized sub kind
\* is fatal: it raises the error of the sub kind, and the cell gets no size
\* and no position.
C18_UnknownSubKindIsFatal == [] MalformedUnsized /\ [][MalformedRaises]_vars

\* The layout failed at a declaration whose sub kind is not recognized.
W18_LayoutFailed ==
    /\ layout # None
    /\ layout.pass = "failed"
    /\ layout.next = 4
    /\ layout.error = << "Unrecognized scope element: ", BOTTOM + 1 >>

\* A placed cell was measured before, and so was every cell of its canvas.
MeasuredBeforePlaced ==
    \A k \in DOMAIN cells :
        cells[k].base # None =>
            \A j \in DOMAIN cells : cells[j].measured # None /\ cells[j].size # None

\* draw leaves minWidth and minHeight alone.
DrawKeepsMeasures ==
    op' = "draw" =>
        \A k \in DOMAIN cells : cells'[k].measured = cells[k].measured

\* C19: the measure pass has set minWidth, minHeight, width and height of
\* every scope cell before the place pass sets its baseX and baseY, and
\* draw never changes minWidth and minHeight.
C19_TwoPass == [] MeasuredBeforePlaced /\ [][DrawKeepsMeasures]_vars

\* Every cell of a canvas with a side comment and a docstring is placed.
W19_AllPlaced ==
    /\ layout # None
    /\ layout.pass = "done"
    /\ Len(cells) = 9
    /\ \A k \in DOMAIN cells : cells[k].base # None

-----------------------------------------------------------------------------
(* Calls of getContext one after the other *)

\* The caller keeps the context returned to it.
KeepContext ==
    /\ op = "getContext"
    /\ kept = None
    /\ kept' = [ text |-> text, info |-> info, lexer |-> lexer,
                 cursorLine |-> cursorLine, cursorPos |-> cursorPos,
                 skipDef |-> skipDef, skipBlank |-> skipBlank,
                 context |-> context ]
    /\ op' = "keep"
    /\ UNCHANGED << ctxVars, cmlVars, colorVars, genVars, mouseVars, layoutVars,
                    tabVars, zoomVars >>

\* Buffers of a class with a method and of two functions.
Buffers ==
    { << Line("class", 0), Line("def", 4), Line("stmt", 8), Line("blank", 0) >>,
      << Line("def", 0), Line("stmt", 4), Line("def", 0), Line("stmt", 4) >> }

InitCalls ==
    /\ text \in Buffers
    /\ indentWidth = 4
    /\ info = BriefModuleInfo(text)
    /\ lexer = "python"
    /\ cursorLine = 0
    /\ cursorPos = 0
    /\ skipDef = TRUE
    /\ skipBlank = FALSE
    /\ context = NewContext
    /\ op = "init"
    /\ IdleCML
    /\ IdleRest

NextCalls ==
    \/ GetContext
    \/ KeepContext
    \/ DiscardContext

SpecCalls == InitCalls /\ [][NextCalls]_vars

\* The call that returned the context kept had the arguments of the last
\* call.
SameCall ==
    /\ kept # None
    /\ kept.text = text
    /\ kept.info = info
    /\ kept.lexer = lexer
    /\ kept.cursorLine = cursorLine
    /\ kept.cursorPos = cursorPos
    /\ kept.skipDef = skipDef
    /\ kept.skipBlank = skipBlank

\* getContext changes neither the outline nor the text nor a context
\* returned earlier.
GetContextIsPure ==
    op' = "getContext" => (text' = text /\ info' = info /\ kept' = kept)

\* Two calls with the same arguments return equal stacks.
GetContextIsDeterministic ==
    (op = "getContext" /\ SameCall) => context = kept.context

-----------------------------------------------------------------------------
(* The scope walk, level by level *)

\* The cursor is on the definition line of no definition, so the walk is
\* not cut short by a header under the cursor.
OffDefinitions ==
    /\ op = "getContext"
    /\ lexer = "python"
    /\ getDefinitionObject(info, Effective.line + 1, Effective.pos) = None

\* The definitions of a level that begin above the line ln.
Above(infoObj, ln) == { d \in Children(infoObj) : d.line < ln }

\* The definitions of a level that begin above the line ln, and its
\* functions that begin on it.
AboveOrFunctionOn(infoObj, ln) ==
    Above(infoObj, ln) \cup { d \in Range(infoObj.functions) : d.line = ln }

\* The level that the walk scans after it has pushed i frames.
LevelAfter(i) == IF i = 0 THEN info ELSE Walked.levels[i][1]

\* d is the definition of the set with the greatest line.
Greatest_line(d, defs) == d \in defs /\ \A e \in defs : e.line <= d.line

\* C21: at each nesting level the scope walk descends into the definition,
\* among the classes and functions of the level, with the greatest line
\* strictly less than the cursor line (the closer of a class and a function),
\* and stops when the level has no such definition.
C21_GreatestLineAbove ==
    OffDefinitions =>
        /\ \A i \in 1..Walked.length :
               Greatest_line(Walked.levels[i][1],
                             Above(LevelAfter(i - 1), Effective.line + 1))
        /\ Above(LevelAfter(Walked.length), Effective.line + 1) = {}

\* What the walk does: a function that begins on the cursor line qualifies
\* as well.
WalkOfTheCode ==
    OffDefinitions =>
        /\ \A i \in 1..Walked.length :
               Greatest_line(Walked.levels[i][1],
                     AboveOrFunctionOn(LevelAfter(i - 1), Effective.line + 1))
        /\ AboveOrFunctionOn(LevelAfter(Walked.length),
                             Effective.line + 1) = {}

-----------------------------------------------------------------------------
(* The definition line of a definition *)

\* (l1, c1) is not after (l2, c2) in (line, column) order.
NotAfter(l1, c1, l2, c2) == l1 < l2 \/ (l1 = l2 /\ c1 <= c2)

\* The position at which the header of a definition begins: that of its
\* first decorator, or of its keyword when it has none.
HeaderBegin(infoObj) ==
    IF Len(infoObj.decorators) > 0
    THEN [line |-> infoObj.decorators[1].line, pos |-> infoObj.decorators[1].pos]
    ELSE [line |-> infoObj.keywordLine, pos |-> infoObj.keywordPos]

\* (line, col) lies between the beginning of the header and its colon.
InHeader(infoObj, line, col) ==
    /\ NotAfter(HeaderBegin(infoObj).line, HeaderBegin(infoObj).pos, line, col)
    /\ NotAfter(line, col, infoObj.colonLine, infoObj.colonPos)

\* The 1-based positions of the buffer.
Positions == (1..Len(text)) \X (1..(MaxPos + 1))

\* C22: a position (line, col) is on the header of a definition exactly
\* when it lies between the position of the first decorator (of the keyword
\* when there is no decorator) and the position of the colon, both included,
\* in (line, column) order.
C22_OnDefinitionLine ==
    op = "getContext" =>
        \A h \in Headers : \A p \in Positions :
            isOnDefinitionLine(DefinitionOf(text, h), p[1], p[2])
                <=> InHeader(DefinitionOf(text, h), p[1], p[2])

\* What _isOnDefinitionLine computes: without a decorator the header begins
\* at the first column of the keyword line.
OnDefinitionLineOfTheCode ==
    op = "getContext" =>
        \A h \in Headers : \A p \in Positions :
            isOnDefinitionLine(DefinitionOf(text, h), p[1], p[2])
                <=> \/ InHeader(DefinitionOf(text, h), p[1], p[2])
                    \/ /\ p[1] = h
                       /\ p[2] < DefinitionOf(text, h).keywordPos

-----------------------------------------------------------------------------
(* The second pass: stripping by indentation *)

\* The second pass has run: the walk found a scope and getContext did not
\* return on a definition under the cursor.
SecondPass ==
    /\ op = "getContext"
    /\ lexer = "python"
    /\ Walked.length > 0
    /\ (skipDef \/ getDefinitionObject(info, Effective.line + 1,
                                       Effective.pos) = None)

\* The lines (1-based) that the pass scans before the cursor line: those
\* below the header of the innermost scope of the walk.
ScannedLines == (getLastScopeLine(Walked) + 1)..Effective.line

\* The column that the pass compares at the cursor line.
CursorColumn ==
    IF IsBlank(text[Effective.line + 1]) THEN Effective.pos
    ELSE Min(Effective.pos, text[Effective.line + 1].ind)

\* The indentations that the pass compares with the frames: those of the
\* scanned lines that hold code, and the column at the cursor line.
ComparedColumns ==
    { text[n].ind : n \in { m \in ScannedLines : IsCode(text[m]) } }
        \cup {CursorColumn}

\* The column at which the body of the scope of a frame begins.
BodyColumn(frame) == text[frame[1].line].ind + indentWidth

\* The frames of the walk that no compared column is shallower than.
NotShallower ==
    { i \in 1..Walked.length :
        \A j \in 1..i : \A c \in ComparedColumns :
            c >= BodyColumn(Walked.levels[j]) }

\* The cursor is below the header of the innermost scope of the walk.
BelowInnermost == getLastScopeLine(Walked) <= Effective.line

\* C23: in the second pass a scanned line strips frames exactly when its
\* indentation is shallower than the depth of the innermost frame; it
\* removes the frames deeper than its indentation and no others, and a line
\* indented at least as deep as the body of the innermost frame removes
\* nothing.
C23_StripByIndentation ==
    (SecondPass /\ BelowInnermost) =>
        /\ context.length = Cardinality(NotShallower)
        /\ context.levels = SubSeq(Walked.levels, 1, context.length)

\* With four columns of indentation per level the pass strips as claimed.
StripByIndentationOfFour ==
    indentWidth = 4 => C23_StripByIndentation

-----------------------------------------------------------------------------
(* The second pass: continuation lines, blank lines and comments *)

\* The longest body typed below the header of the function.
MaxBody == 3

\* The lines of the body of a function: statements, statements that end in
\* ',' or '\' or inside a triple-quoted string, their continuation lines,
\* comments and blank lines.
NextLines ==
    /\ Len(text) <= MaxBody
    /\ \/ TypeStatement
       \/ TypeOpenStatement
       \/ TypeContinuation
       \/ TypeComment
       \/ TypeBlankLine

InitLines ==
    /\ text = << Line("def", 0) >>
    /\ indentWidth \in {4, 8}
    /\ info = BriefModuleInfo(text)
    /\ lexer = "python"
    /\ cursorLine = 0
    /\ cursorPos = 0
    /\ skipDef = TRUE
    /\ skipBlank = FALSE
    /\ context = NewContext
    /\ op = "init"
    /\ IdleCML
    /\ IdleRest

SpecLines == InitLines /\ [][NextLines \/ GetContext \/ DiscardContext]_vars

\* Line n (1-based) follows a line that ends in a backslash, in a comma or
\* inside a triple-quoted string.
FollowsOpenLine(n) == n > 1 /\ text[n - 1].end # "none"

\* Line n is a blank line or a comment outside a continuation.
BlankOrComment(n) == IsBlank(text[n]) \/ text[n].kind = "comment"

\* Line n is one of the lines that the claim says never strip.
NeverStrips(n) == FollowsOpenLine(n) \/ BlankOrComment(n)

\* The columns of the lines that may strip: the scanned lines that begin a
\* logical line of code, and the cursor line unless it continues one.
LogicalColumns ==
    { text[n].ind : n \in { m \in ScannedLines : ~NeverStrips(m) } }
        \cup (IF FollowsOpenLine(Effective.line + 1) THEN {}
              ELSE {CursorColumn})

\* C24: in the second pass a line that follows a line ending in a
\* backslash, in a comma or inside a triple-quoted string never triggers
\* stripping, whatever its indentation, and neither does a blank line or a
\* comment line outside a continuation: the stack is that of the walk
\* stripped by the other lines alone.
C24_ContinuationsNeverStrip ==
    (SecondPass /\ BelowInnermost) =>
        context = IF LogicalColumns = {} THEN Walked
                  ELSE stripLevels(Walked, Least(LogicalColumns))

\* A continuation line that is shallower than the body of the function has
\* been scanned above the cursor line and the function is still on the
\* stack.
W24_ShallowContinuationKept ==
    /\ SecondPass
    /\ BelowInnermost
    /\ context.length = 1
    /\ \E n \in ScannedLines : FollowsOpenLine(n) /\ text[n].ind = 0

-----------------------------------------------------------------------------
(* The vertical connector of a scope *)

\* The most rows that the parent canvas holds above the scope.
MaxRowsAbove == 2

\* The kinds of scope cells.
ScopeKinds ==
    { "FILE_SCOPE", "FUNC_SCOPE", "CLASS_SCOPE", "FOR_SCOPE", "WHILE_SCOPE",
      "TRY_SCOPE", "WITH_SCOPE", "DECOR_SCOPE", "ELSE_SCOPE", "EXCEPT_SCOPE",
      "FINALLY_SCOPE" }

\* The cells of a scope of the kind.
ScopeOfKind(kind, scope) == [k \in DOMAIN scope |-> [scope[k] EXCEPT !.kind = kind]]

\* A cell of the parent canvas; scope is the kind of cells[ 0 ][ 0 ] of a
\* nested canvas.
ParentCell(kind, scope) == [kind |-> kind, scope |-> scope]

\* The rows that a parent canvas may hold above the scope, which lies in
\* its column 1: the row ends before that column or holds a connector, a
\* nested canvas or a code block there.
RowsAbove ==
    { << ParentCell("CONNECTOR", "") >> }
    \cup { << ParentCell("CONNECTOR", ""), c >> :
             c \in { ParentCell("CONNECTOR", ""), ParentCell("CODE_BLOCK", ""),
                     ParentCell("VCANVAS", "TRY_SCOPE"),
                     ParentCell("VCANVAS", "WHILE_SCOPE"),
                     ParentCell("VCANVAS", "EXCEPT_SCOPE") } }

\* The cells of the parent canvas down to the row of the scope.
ParentCells(kind) ==
    { above \o << << ParentCell("CONNECTOR", ""), ParentCell("VCANVAS", kind) >> >> :
          above \in UNION { [1..n -> RowsAbove] : n \in 0..MaxRowsAbove } }

\* The canvas of a scope nested in the parent canvas at column 1 below the
\* rows above it.
NestedCanvas(cv, parentCells) ==
    [cv EXCEPT !.addr = << 1, Len(parentCells) - 1 >>,
               !.canvas = [cells |-> parentCells]]

InitConnector ==
    /\ IdleCtx
    /\ IdleCML
    /\ IdleColor
    /\ IdleGen
    /\ IdleMouse
    /\ IdleCalls
    /\ IdleTabs
    /\ IdleZoom
    /\ op = "init"
    /\ \E kind \in ScopeKinds :
           /\ cells = ScopeOfKind(kind, NewCells(1, FALSE, None, None))
           /\ \E parentCells \in ParentCells(kind), base \in { << 0, 0 >>, << 10, 20 >> } :
                  vcanvas = NestedCanvas(NewCanvas(CHOOSE s \in Settings : s.mainLine = 25,
                                                   CHOOSE b \in Badges : b.withinHeader,
                                                   base, FALSE),
                                         parentCells)
    /\ layout = [pass |-> "render", next |-> 1, error |-> None]

SpecConnector == InitConnector /\ [][NextLayout]_vars

\* The top left cell of the scope has been placed.
TopLeftPlaced ==
    /\ layout.pass \in {"draw", "done"}
    /\ cells[1].subKind = TOP_LEFT
    /\ cells[1].base # None

\* The cells of the column of the scope in the rows above it, from the row
\* above the scope upward.
ColumnAbove ==
    [i \in 1..vcanvas.addr[2] |->
        IF Len(vcanvas.canvas.cells[vcanvas.addr[2] + 1 - i]) > vcanvas.addr[1]
        THEN vcanvas.canvas.cells[vcanvas.addr[2] + 1 - i][vcanvas.addr[1] + 1]
        ELSE None]

\* Walking upward and skipping connectors, the first other cell reached is
\* the nested canvas of a try scope.
FirstAboveIsTry ==
    \E i \in DOMAIN ColumnAbove :
        /\ ColumnAbove[i] = ParentCell("VCANVAS", "TRY_SCOPE")
        /\ \A j \in 1..(i - 1) : ColumnAbove[j] = ParentCell("CONNECTOR", "")

\* The scope is one that has a vertical connector.
Connected ==
    \/ cells[1].kind \in { "FOR_SCOPE", "WHILE_SCOPE", "DECOR_SCOPE",
                           "WITH_SCOPE", "FINALLY_SCOPE", "TRY_SCOPE",
                           "FUNC_SCOPE", "CLASS_SCOPE" }
    \/ cells[1].kind = "ELSE_SCOPE" /\ FirstAboveIsTry

\* The connector runs down the main line over the full height of the scope.
FullHeight(connector) ==
    /\ connector.x1 = cells[1].base.baseX + vcanvas.settings.mainLine
    /\ connector.x2 = connector.x1
    /\ connector.y1 = cells[1].base.baseY
    /\ connector.y2 = cells[1].base.baseY + vcanvas.height

-----------------------------------------------------------------------------
(* The selection after mouse press events *)

\* The selected top left cells of scopes.
SelectedScopes ==
    { s \in selected : items[s].scoped /\ items[s].subKind = TOP_LEFT }

\* C26: after any sequence of mouse press events from an empty selection
\* (plain, Ctrl- and Shift- left clicks, right clicks, other buttons) the
\* selection never holds the top left cell of a scope together with another
\* selected item whose range lies within the range of the scope.
C26_NoNestedSelection ==
    \A s \in SelectedScopes : \A x \in selected \ {s} :
        ~Within(getItemVisualBeginEnd(x), getItemVisualBeginEnd(s))

\* A mouse press event has left a scope selected next to another item.
W26_ScopeAndAnotherItem ==
    /\ op = "mousePressEvent"
    /\ SelectedScopes # {}
    /\ Cardinality(selected) >= 2

-----------------------------------------------------------------------------
(* The lines that the resolver reads *)

\* The lines of the buffer down to the cursor line.
UpToCursor == SubSeq(text, 1, cursorLine + 1)

\* C27: the stack depends only on the outline, the flags, the cursor
\* position and the lines up to and including the cursor line: a text that
\* agrees with the buffer on those lines, with the same outline, resolves
\* to the same stack, also with the cursor after the colon on the header
\* line of a definition.
C27_LinesUpToCursor ==
    op = "getContext" =>
        context = getContext(UpToCursor, lexer, info, cursorLine, cursorPos,
                             skipBlank, skipDef)

\* The second pass reads no line below the cursor line unless the walk has
\* pushed a function that begins on the cursor line.
LinesUpToCursorBelowHeaders ==
    (op = "getContext" /\ lexer = "python"
        /\ (Walked.length > 0 => BelowInnermost)) =>
        context = getContext(UpToCursor, lexer, info, cursorLine, cursorPos,
                             skipBlank, skipDef)

-----------------------------------------------------------------------------
(* validateCMLList on a list that it has processed before *)

\* validateCMLList has run on a list that holds a typed annotation.
ValidatedAgain ==
    /\ op = "validateCMLList"
    /\ \E i \in 1..Len(raw) : IsTyped(raw[i])

\* C28: validateCMLList on a list that it has processed before, which holds
\* typed annotations next to raw comments, does not fail, leaves every
\* typed annotation as it is and reports no warning for it.
C28_ValidateAgain ==
    ValidatedAgain =>
        /\ ~raised
        /\ Len(comments) = Len(raw)
        /\ \A i \in 1..Len(raw) :
               IsTyped(raw[i]) =>
                   /\ comments[i] = raw[i]
                   /\ WarningsAt(raw[i].ref) = {}

\* The second run fails whenever the list holds a typed annotation.
ValidateAgainRaises == ValidatedAgain => raised

-----------------------------------------------------------------------------
(* The tabs of the editors manager: ui/editorsmanager.py *)

\* How many editor tabs are open at most.
MaxTabs == 3

exceptTabs == << ctxVars, cmlVars, colorVars, genVars, mouseVars, layoutVars,
                 kept, zoomVars >>

\* The welcome widget; it is never modified and has no place in the history.
welcomeWidget == [kind |-> "WelcomeWidget", uuid |-> 0, modified |-> FALSE]

\* A text editor tab as newTabClicked creates it.
TextEditorTabWidget(uuid) ==
    [kind |-> "TextEditorTabWidget", uuid |-> uuid, modified |-> FALSE]

\* widget( index ) of the tab widget; the indexes start at 0.
widget(t, index) == IF index + 1 \in 1..Len(t) THEN t[index + 1] ELSE None

\* The UUID of a new widget: one that no open tab has.
NewUUID(t) ==
    CHOOSE u \in 1..MaxTabs :
        /\ \A i \in 1..Len(t) : t[i].uuid # u
        /\ \A v \in 1..(u - 1) : \E i \in 1..Len(t) : t[i].uuid = v

RECURSIVE Without(_, _)
\* The entries of a history that are not of the given tab.
Without(h, uuid) ==
    IF h = << >> THEN << >>
    ELSE IF Head(h) = uuid THEN Without(Tail(h), uuid)
         ELSE << Head(h) >> \o Without(Tail(h), uuid)

\* TabsHistory keeps the visited tabs; the model keeps of it the tabs that
\* have an entry, ordered by their latest entry, the last being the current.
historyClear == << >>

historyTabClosed(h, uuid) == Without(h, uuid)

historyAddCurrent(h, uuid) == Append(Without(h, uuid), uuid)

historyGetCurrentIndex(h) == Len(h) - 1

historyGetCurrentEntry(h) == h[Len(h)]

getIndexByUUID(t, uuid) == (CHOOSE i \in 1..Len(t) : t[i].uuid = uuid) - 1

\* __currentChanged: the history takes the current tab unless the welcome
\* widget is the first tab.
currentChanged(t, h, index) ==
    IF index = -1 \/ widget(t, 0) = welcomeWidget
    THEN h
    ELSE historyAddCurrent(h, t[index + 1].uuid)

\* activateTab: setCurrentIndex signals currentChanged when the index changes.
activateTab(t, h, cur, index) ==
    IF index = cur THEN h ELSE currentChanged(t, h, index)

\* removeTab of the tab widget.
removeTab(t, index) ==
    [i \in 1..(Len(t) - 1) |-> IF i <= index THEN t[i] ELSE t[i + 1]]

\* The current index of the tab widget after removeTab: the tab that takes
\* the place of a removed current tab, or the last one.
IndexAfterRemove(cur, index, count) ==
    IF index < cur THEN cur - 1
    ELSE IF cur >= count THEN count - 1
    ELSE cur

\* The tab widget after __onCloseRequest has closed a tab without putting
\* the welcome widget back.
CloseWithoutWelcome(t, closable, h, cur, index) ==
    LET rest == removeTab(t, index)
        after == IndexAfterRemove(cur, index, Len(rest))
        closed == historyTabClosed(h, t[index + 1].uuid)
    IN  IF Len(rest) = 0
        THEN [tabs |-> rest, tabsClosable |-> closable, history |-> closed,
              currentIndex |-> after]
        ELSE IF historyGetCurrentIndex(closed) = -1
        THEN [tabs |-> rest, tabsClosable |-> closable,
              history |-> historyAddCurrent(closed, rest[after + 1].uuid),
              currentIndex |-> after]
        ELSE [tabs |-> rest, tabsClosable |-> closable, history |-> closed,
              currentIndex |->
                  getIndexByUUID(rest, historyGetCurrentEntry(closed))]

\* __onCloseRequest from removeTab on: the tab goes; the welcome widget comes
\* back when no tab is left, and otherwise the history advises the tab to show.
CloseTab(t, closable, h, cur, index) ==
    LET rest == removeTab(t, index)
        after == IndexAfterRemove(cur, index, Len(rest))
        closed == historyTabClosed(h, t[index + 1].uuid)
    IN  IF Len(rest) = 0
        THEN [tabs |-> << welcomeWidget >>, tabsClosable |-> FALSE,
              history |-> historyClear, currentIndex |-> 0]
        ELSE IF historyGetCurrentIndex(closed) = -1
        THEN [tabs |-> rest, tabsClosable |-> closable,
              history |-> historyAddCurrent(closed, rest[after + 1].uuid),
              currentIndex |-> after]
        ELSE [tabs |-> rest, tabsClosable |-> closable, history |-> closed,
              currentIndex |->
                  getIndexByUUID(rest, historyGetCurrentEntry(closed))]

\* What the user answers when asked about a modified tab; a save may fail.
Answers == {"Save", "SaveFailed", "Cancel", "Discard"}

\* __onCloseRequest( index ): a modified tab is activated and the user is
\* asked; the tab stays on Cancel and on a failed save.
onCloseRequest(index) ==
    IF tabs[index + 1].modified
    THEN \E res \in Answers :
             LET activated == activateTab(tabs, history, currentIndex, index)
                 closing == CloseTab(tabs, tabsClosable, activated, index, index)
             IN  IF res \in {"SaveFailed", "Cancel"}
                 THEN /\ history' = activated
                      /\ currentIndex' = index
                      /\ UNCHANGED << tabs, tabsClosable >>
                 ELSE /\ tabs' = closing.tabs
                      /\ tabsClosable' = closing.tabsClosable
                      /\ history' = closing.history
                      /\ currentIndex' = closing.currentIndex
    ELSE LET closing == CloseTab(tabs, tabsClosable, history, currentIndex, index)
         IN  /\ tabs' = closing.tabs
             /\ tabsClosable' = closing.tabsClosable
             /\ history' = closing.history
             /\ currentIndex' = closing.currentIndex

\* newTabClicked: the welcome widget goes and the tabs become closable; the
\* new tab is inserted first and activated.
newTabClicked ==
    /\ Cardinality({i \in 1..Len(tabs) : tabs[i] # welcomeWidget}) < MaxTabs
    /\ LET welcome == widget(tabs, 0) = welcomeWidget
           before == IF welcome THEN removeTab(tabs, 0) ELSE tabs
           inserted == << TextEditorTabWidget(NewUUID(before)) >> \o before
           cur == IF before = << >> THEN -1 ELSE currentIndex + 1
       IN  /\ tabs' = inserted
           /\ tabsClosable' = (welcome \/ tabsClosable)
           /\ history' = IF before = << >>
                         THEN currentChanged(inserted, history, 0)
                         ELSE activateTab(inserted, history, cur, 0)
           /\ currentIndex' = 0
    /\ op' = "newTabClicked"
    /\ UNCHANGED exceptTabs

\* The user changes the text of an editor tab.
ModifyTab ==
    /\ \E i \in 1..Len(tabs) :
           /\ tabs[i].kind = "TextEditorTabWidget"
           /\ ~tabs[i].modified
           /\ tabs' = [tabs EXCEPT ![i].modified = TRUE]
    /\ op' = "modify"
    /\ UNCHANGED << tabsClosable, history, currentIndex, exceptTabs >>

\* The close button of a tab, which the tabs have while they are closable.
tabCloseRequested ==
    /\ tabsClosable
    /\ \E index \in 0..(Len(tabs) - 1) : onCloseRequest(index)
    /\ op' = "tabCloseRequested"
    /\ UNCHANGED exceptTabs

\* onCloseTab: Ctrl+F4 closes the current tab unless it is the welcome widget.
onCloseTab ==
    /\ widget(tabs, 0) # welcomeWidget
    /\ onCloseRequest(currentIndex)
    /\ op' = "onCloseTab"
    /\ UNCHANGED exceptTabs

\* closeRequest: the modified tabs, the first of which it activates.
Modified(t) == {i \in 1..Len(t) : t[i].modified}

RECURSIVE CloseFirstTabs(_, _, _, _)
\* The loop of closeAll: __onCloseRequest( 0 ) until the welcome widget is
\* the first tab.
CloseFirstTabs(t, closable, h, cur) ==
    IF widget(t, 0) = welcomeWidget
    THEN [tabs |-> t, tabsClosable |-> closable, history |-> h,
          currentIndex |-> cur]
    ELSE LET closing == CloseTab(t, closable, h, cur, 0)
         IN  CloseFirstTabs(closing.tabs, closing.tabsClosable,
                            closing.history, closing.currentIndex)

\* closeAll: nothing is closed while a tab is modified.
closeAll ==
    /\ tabs # << >>
    /\ IF Modified(tabs) # {}
       THEN LET firstIndex == (CHOOSE i \in Modified(tabs) :
                                   \A j \in Modified(tabs) : i <= j) - 1
            IN  /\ history' = activateTab(tabs, history, currentIndex, firstIndex)
                /\ currentIndex' = firstIndex
                /\ UNCHANGED << tabs, tabsClosable >>
       ELSE LET closing == CloseFirstTabs(tabs, tabsClosable, history,
                                          currentIndex)
            IN  /\ tabs' = closing.tabs
                /\ tabsClosable' = closing.tabsClosable
                /\ history' = closing.history
                /\ currentIndex' = closing.currentIndex
    /\ op' = "closeAll"
    /\ UNCHANGED exceptTabs

\* The editors manager after __init__: the welcome widget is the only tab.
InitTabs ==
    /\ IdleCtx
    /\ IdleCML
    /\ IdleColor
    /\ IdleGen
    /\ IdleMouse
    /\ IdleLayout
    /\ IdleCalls
    /\ IdleZoom
    /\ op = "init"
    /\ tabs = << welcomeWidget >>
    /\ tabsClosable = FALSE
    /\ history = << >>
    /\ currentIndex = 0

NextTabs ==
    \/ newTabClicked
    \/ ModifyTab
    \/ tabCloseRequested
    \/ onCloseTab
    \/ closeAll

SpecTabs == InitTabs /\ [][NextTabs]_vars

\* The welcome widget is the only tab, the tabs are not closable and the
\* history is empty.
OnlyWelcome ==
    /\ tabs = << welcomeWidget >>
    /\ ~tabsClosable
    /\ history = << >>

\* C29: after any new-tab, close-tab and close-all operations, the tab widget
\* holds at least one tab; the welcome widget is there exactly when no other
\* tab is open, and it is then the only tab, the tabs are not closable and the
\* history is empty; closeAll with no modified tab ends with only the welcome
\* tab.
C29_WelcomeOrTabs ==
    /\ Len(tabs) >= 1
    /\ (\E i \in 1..Len(tabs) : tabs[i] = welcomeWidget)
           <=> (\A i \in 1..Len(tabs) : tabs[i] = welcomeWidget)
    /\ (\E i \in 1..Len(tabs) : tabs[i] = welcomeWidget) => OnlyWelcome
    /\ (op = "closeAll" /\ Modified(tabs) = {}) => OnlyWelcome

\* The last editor tab has been closed and the welcome widget is back.
W29_BackToWelcome ==
    /\ op \in {"tabCloseRequested", "onCloseTab"}
    /\ OnlyWelcome

-----------------------------------------------------------------------------
(* The zoom of the diff tabs and of the IO console tabs:
   ui/difftabwidget.py, editor/redirectedioconsole.py, ui/editorsmanager.py *)

\* How many IO console tabs are open at most.
MaxConsoles == 2

\* The limits of the zoom that the zoom handlers test.
MinZoom == -10

MaxZoom == 20

exceptZoom == << ctxVars, cmlVars, colorVars, genVars, mouseVars, layoutVars,
                 kept, tabVars >>

\* textEditorZoom.emit( value )
Emit(value) == [kind |-> "textEditorZoom", value |-> value]

\* onZoomIn without the test of the upper limit.
zoomInAlways(z) == Emit(z + 1)

\* onZoomReset, onZoomIn and onZoomOut of a tab that sees the zoom z.
onZoomReset(z) == IF z # 0 THEN Emit(0) ELSE None

onZoomIn(z) == IF z < MaxZoom THEN Emit(z + 1) ELSE None

onZoomOut(z) == IF z > MinZoom THEN Emit(z - 1) ELSE None

\* mainWindow.zoomIOconsole: every IO console tab is zoomed to the value.
zoomIOconsole(vs, zoomValue) == [i \in 1..Len(vs) |-> zoomValue]

\* A request of a tab and onZoom for what it emits: the setting takes the
\* value and the IO consoles are zoomed to it.
onZoom(request) ==
    /\ emitted' = [request |-> request, before |-> zoom]
    /\ IF request = None
       THEN UNCHANGED << zoom, viewers >>
       ELSE /\ zoom' = request.value
            /\ viewers' = zoomIOconsole(viewers, request.value)
    /\ UNCHANGED exceptZoom

\* The buttons of a diff tab, which reads Settings().zoom.
DiffOnZoomReset == onZoom(onZoomReset(zoom)) /\ op' = "onZoomReset"

DiffOnZoomIn == onZoom(onZoomIn(zoom)) /\ op' = "onZoomIn"

DiffOnZoomOut == onZoom(onZoomOut(zoom)) /\ op' = "onZoomOut"

\* The buttons of an IO console tab, which reads the zoom of its viewer.
ConsoleOnZoomReset ==
    /\ \E i \in 1..Len(viewers) : onZoom(onZoomReset(viewers[i]))
    /\ op' = "onZoomReset"

ConsoleOnZoomIn ==
    /\ \E i \in 1..Len(viewers) : onZoom(onZoomIn(viewers[i]))
    /\ op' = "onZoomIn"

ConsoleOnZoomOut ==
    /\ \E i \in 1..Len(viewers) : onZoom(onZoomOut(viewers[i]))
    /\ op' = "onZoomOut"

\* A new IO console tab: its viewer is zoomed to Settings().zoom.
NewIOConsole ==
    /\ Len(viewers) < MaxConsoles
    /\ viewers' = Append(viewers, zoom)
    /\ op' = "IOConsoleTabWidget"
    /\ UNCHANGED << zoom, emitted, exceptZoom >>

InitZoom ==
    /\ IdleCtx
    /\ IdleCML
    /\ IdleColor
    /\ IdleGen
    /\ IdleMouse
    /\ IdleLayout
    /\ IdleCalls
    /\ IdleTabs
    /\ op = "init"
    /\ zoom \in MinZoom..MaxZoom
    /\ viewers = << >>
    /\ emitted = [request |-> None, before |-> zoom]

NextZoom ==
    \/ DiffOnZoomReset
    \/ DiffOnZoomIn
    \/ DiffOnZoomOut
    \/ ConsoleOnZoomReset
    \/ ConsoleOnZoomIn
    \/ ConsoleOnZoomOut
    \/ NewIOConsole

SpecZoom == InitZoom /\ [][NextZoom]_vars

\* C30: from a zoom within -10..20, after any zoom-in, zoom-out and zoom-reset
\* requests of diff tabs and IO console tabs applied through onZoom, the
\* shared zoom stays within -10..20: zoom-in at 20 and zoom-out at -10 emit
\* nothing, and zoom-reset emits 0, and only when the zoom is not 0 already.
C30_ZoomWithinLimits ==
    /\ zoom \in MinZoom..MaxZoom
    /\ (op = "onZoomIn" /\ emitted.before = MaxZoom) => emitted.request = None
    /\ (op = "onZoomOut" /\ emitted.before = MinZoom) => emitted.request = None
    /\ (op = "onZoomReset" /\ emitted.request # None) =>
           /\ emitted.request.value = 0
           /\ emitted.before # 0

\* An IO console tab was asked to zoom in at the upper limit and emitted
\* nothing.
W30_ZoomInAtLimit ==
    /\ op = "onZoomIn"
    /\ viewers # << >>
    /\ emitted.before = MaxZoom
    /\ emitted.request = None
    /\ zoom = MaxZoom

=============================================================================
